---------------------------- MODULE Spec2Model ----------------------------
(***************************************************************************)
(* A model of passlib's salt+rounds handler framework (BaseSRHandler in    *)
(* passlib/utils/handlers.py) and of the sha512_crypt handler built on it  *)
(* (passlib/hash/sha512_crypt.py).                                         *)
(*                                                                         *)
(* Strings are sequences of one-character strings.  Python's None is the   *)
(* record None, any other value v is Some(v).  A call returns Ok(v) or     *)
(* Raise(e), e the name of the exception that left the call.               *)
(***************************************************************************)
EXTENDS Integers, Sequences, FiniteSets, TLC

VARIABLES cls, req, text, origin, op, args, ret, policies, warned

vars == <<cls, req, text, origin, op, args, ret, policies, warned>>

-----------------------------------------------------------------------------
(* Python values *)

None == [isNone |-> TRUE]

Some(v) == [isNone |-> FALSE, val |-> v]

Ok(v) == [exc |-> "none", val |-> v]

Raise(e) == [exc |-> e]

IsOk(r) == r.exc = "none"

\* truth value of an optional string: None and "" are false
TruthyStr(o) == (~o.isNone) /\ Len(o.val) > 0

\* truth value of an optional boolean: None and False are false
TruthyBool(o) == (~o.isNone) /\ o.val

-----------------------------------------------------------------------------
(* Bounds of the model *)

\* number of distinct draws the random source can produce in the model
NumSeeds == 2

\* how far past max_salt_chars the requested salts reach
SaltOver == 2

\* how far outside [min_rounds, max_rounds] the requested rounds reach
RoundsSlack == 1

-----------------------------------------------------------------------------
(* Characters *)

H64_CHARS ==
    << ".", "/", "0", "1", "2", "3", "4", "5", "6", "7", "8", "9",
       "A", "B", "C", "D", "E", "F", "G", "H", "I", "J", "K", "L", "M",
       "N", "O", "P", "Q", "R", "S", "T", "U", "V", "W", "X", "Y", "Z",
       "a", "b", "c", "d", "e", "f", "g", "h", "i", "j", "k", "l", "m",
       "n", "o", "p", "q", "r", "s", "t", "u", "v", "w", "x", "y", "z" >>

Range(s) == { s[i] : i \in 1..Len(s) }

H64Set == Range(H64_CHARS)

DigitChars == << "0", "1", "2", "3", "4", "5", "6", "7", "8", "9" >>

DigitSet == Range(DigitChars)

NL == "\n"

\* position (from 0) of a character in a character table
IndexIn(tbl, c) == (CHOOSE i \in 1..Len(tbl) : tbl[i] = c) - 1

\* "%d" % n
RECURSIVE FormatNat(_)
FormatNat(n) ==
    IF n < 10 THEN << DigitChars[n + 1] >>
    ELSE FormatNat(n \div 10) \o << DigitChars[(n % 10) + 1] >>

FormatInt(n) == IF n < 0 THEN << "-" >> \o FormatNat(0 - n) ELSE FormatNat(n)

\* int(s) for a string of decimal digits
RECURSIVE ParseInt(_)
ParseInt(s) ==
    IF Len(s) = 0 THEN 0
    ELSE 10 * ParseInt(SubSeq(s, 1, Len(s) - 1)) + IndexIn(DigitChars, s[Len(s)])

IsPrefixOf(p, s) == Len(p) <= Len(s) /\ SubSeq(s, 1, Len(p)) = p

\* s[:n]
Take(s, n) == SubSeq(s, 1, IF n < Len(s) THEN n ELSE Len(s))

\* s[n:] (n counted from 0)
Drop(s, n) == SubSeq(s, n + 1, Len(s))

\* a character class of a pattern: the characters listed, or with neg all
\* characters but those
CharClass(chars, neg) == [ chars |-> chars, neg |-> neg ]

InClass(cl, ch) == IF cl.neg THEN ch \notin cl.chars ELSE ch \in cl.chars

\* the number of characters of s before position i and the first character
\* from i on that is not of the class
RECURSIVE RunFrom(_, _, _)
RunFrom(s, i, cl) ==
    IF i > Len(s) THEN Len(s)
    ELSE IF ~InClass(cl, s[i]) THEN i - 1
    ELSE RunFrom(s, i + 1, cl)

\* length of the longest prefix of s whose characters are all of the class:
\* what a greedy repetition of the class consumes
RunLen(s, cl) == RunFrom(s, 1, cl)

-----------------------------------------------------------------------------
(* hash64 encoding of byte groups (passlib/util.py) *)
(*                                                                         *)
(* A buffer is a sequence of bytes, 0..255; offsets count from 0.          *)
(* v & 0x3F is v % 64, v >> 6 is v \div 64, and so on.                     *)

\* faulty variant: the bit order of standard base64, most significant bits
\* first
h64_encode_3_msb_first(buffer, o1, o2, o3) ==
    << H64_CHARS[(buffer[o1 + 1] \div 4) + 1],
       H64_CHARS[((buffer[o1 + 1] % 4) * 16 + (buffer[o2 + 1] \div 16)) + 1],
       H64_CHARS[((buffer[o2 + 1] % 16) * 4 + (buffer[o3 + 1] \div 64)) + 1],
       H64_CHARS[(buffer[o3 + 1] % 64) + 1] >>

\* faulty variant: the four high bits of the second byte are put in the
\* high bits of the last symbol
h64_encode_2_high_padding(buffer, o1, o2) ==
    << H64_CHARS[(buffer[o1 + 1] % 64) + 1],
       H64_CHARS[((buffer[o2 + 1] % 16) * 4 + (buffer[o1 + 1] \div 64)) + 1],
       H64_CHARS[((buffer[o2 + 1] \div 16) * 4) + 1] >>

\* h64_encode_3_offsets(buffer, o1, o2, o3)
h64_encode_3_offsets(buffer, o1, o2, o3) ==
    << H64_CHARS[(buffer[o1 + 1] % 64) + 1],
       H64_CHARS[((buffer[o2 + 1] % 16) * 4 + (buffer[o1 + 1] \div 64)) + 1],
       H64_CHARS[((buffer[o3 + 1] % 4) * 16 + (buffer[o2 + 1] \div 16)) + 1],
       H64_CHARS[(buffer[o3 + 1] \div 4) + 1] >>

\* h64_encode_2_offsets(buffer, o1, o2)
h64_encode_2_offsets(buffer, o1, o2) ==
    << H64_CHARS[(buffer[o1 + 1] % 64) + 1],
       H64_CHARS[((buffer[o2 + 1] % 16) * 4 + (buffer[o1 + 1] \div 64)) + 1],
       H64_CHARS[(buffer[o2 + 1] \div 16) + 1] >>

\* h64_encode_1_offset(buffer, o1)
h64_encode_1_offset(buffer, o1) ==
    << H64_CHARS[(buffer[o1 + 1] % 64) + 1],
       H64_CHARS[(buffer[o1 + 1] \div 64) + 1] >>

\* the bytes the buffers of the model are made of: the ends of the range and
\* the values around the 2-, 4- and 6-bit boundaries of the packing
ByteSamples == { 0, 1, 3, 15, 16, 63, 64, 165, 192, 255 }

\* the offsets the three-byte encoder is called with
Offsets3 == { << 0, 1, 2 >>, << 2, 1, 0 >>, << 1, 1, 1 >> }

\* the offsets the two-byte encoder is called with
Offsets2 == { << 0, 1 >>, << 1, 0 >> }

-----------------------------------------------------------------------------
(* Handler classes: the class attributes of BaseSRHandler and its subclasses *)

\* a subclass of BaseSRHandler that sets the attributes given
HandlerClass(nm, mn_salt, df_salt, mx_salt, mn_rounds, df_rounds, mx_rounds, srb) ==
    [ name                 |-> nm,
      min_salt_chars       |-> mn_salt,
      default_salt_chars   |-> df_salt,
      max_salt_chars       |-> mx_salt,
      salt_chars           |-> H64_CHARS,
      default_salt_charset |-> H64_CHARS,
      min_rounds           |-> mn_rounds,
      default_rounds       |-> df_rounds,
      max_rounds           |-> mx_rounds,
      strict_rounds_bounds |-> srb ]

\* sha512_crypt sets min_salt_chars and max_salt_chars; default_salt_chars
\* is the class property that falls back to max_salt_chars
sha512_crypt ==
    HandlerClass("sha512_crypt", 0, 16, 16, 1000, 40000, 999999999, FALSE)

\* a subclass that sets only max_salt_chars and the rounds: min and default
\* salt size are the class properties that fall back to max_salt_chars, and
\* min_rounds keeps the base class's 0
fixed_salt_handler ==
    HandlerClass("fixed_salt", 8, 8, 8, 0, 10, 100, FALSE)

\* a subclass whose format forbids out-of-range rounds
strict_bounds_handler ==
    HandlerClass("strict_bounds", 2, 4, 6, 4, 8, 31, TRUE)

\* a subclass with a salt range and relaxed rounds bounds
ranged_handler ==
    HandlerClass("ranged", 2, 4, 6, 4, 8, 31, FALSE)

Classes == { sha512_crypt, fixed_salt_handler, strict_bounds_handler, ranged_handler }

-----------------------------------------------------------------------------
(* BaseSRHandler.validate_class *)

\* the attributes validate_class reads from a class: those of its record,
\* the setting keywords and the cost function BaseSRHandler declares, and
\* salt_charset, an attribute BaseSRHandler does not declare
declared(c) ==
    [ name                 |-> Some(c.name),
      setting_kwds         |-> { "salt", "rounds" },
      min_rounds           |-> c.min_rounds,
      max_rounds           |-> Some(c.max_rounds),
      default_rounds       |-> Some(c.default_rounds),
      rounds_cost          |-> "linear",
      min_salt_chars       |-> c.min_salt_chars,
      default_salt_chars   |-> c.default_salt_chars,
      max_salt_chars       |-> c.max_salt_chars,
      salt_charset         |-> None,
      default_salt_charset |-> c.default_salt_charset ]

\* the ways a subclass may differ from its record
ClassVariants ==
    { "as_declared", "log2_cost", "own_salt_charset", "no_default_charset",
      "no_name", "empty_name", "no_rounds_kwd", "no_salt_kwd",
      "no_max_rounds", "no_default_rounds", "min_rounds_above_max",
      "default_rounds_below_min", "default_rounds_above_max",
      "unknown_cost", "min_salt_above_max", "default_salt_below_min",
      "default_salt_above_max", "narrow_salt_charset" }

\* the attributes of the subclass of c that differs from it in one way
variant(c, v) ==
    CASE v = "as_declared"        -> declared(c)
      [] v = "log2_cost"          -> [ declared(c) EXCEPT !.rounds_cost = "log2" ]
      [] v = "own_salt_charset"   -> [ declared(c) EXCEPT !.salt_charset = Some(H64_CHARS) ]
      [] v = "no_default_charset" -> [ declared(c) EXCEPT !.default_salt_charset = << >> ]
      [] v = "no_name"            -> [ declared(c) EXCEPT !.name = None ]
      [] v = "empty_name"         -> [ declared(c) EXCEPT !.name = Some("") ]
      [] v = "no_rounds_kwd"      -> [ declared(c) EXCEPT !.setting_kwds = { "salt" } ]
      [] v = "no_salt_kwd"        -> [ declared(c) EXCEPT !.setting_kwds = { "rounds" } ]
      [] v = "no_max_rounds"      -> [ declared(c) EXCEPT !.max_rounds = None ]
      [] v = "no_default_rounds"  -> [ declared(c) EXCEPT !.default_rounds = None ]
      [] v = "min_rounds_above_max" ->
            [ declared(c) EXCEPT !.min_rounds = c.max_rounds + 1 ]
      [] v = "default_rounds_below_min" ->
            [ declared(c) EXCEPT !.default_rounds = Some(c.min_rounds - 1) ]
      [] v = "default_rounds_above_max" ->
            [ declared(c) EXCEPT !.default_rounds = Some(c.max_rounds + 1) ]
      [] v = "unknown_cost"       -> [ declared(c) EXCEPT !.rounds_cost = "exp" ]
      [] v = "min_salt_above_max" ->
            [ declared(c) EXCEPT !.min_salt_chars = c.max_salt_chars + 1 ]
      [] v = "default_salt_below_min" ->
            [ declared(c) EXCEPT !.min_salt_chars = c.default_salt_chars,
                                 !.default_salt_chars = c.default_salt_chars - 1 ]
      [] v = "default_salt_above_max" ->
            [ declared(c) EXCEPT !.default_salt_chars = c.max_salt_chars + 1 ]
      [] v = "narrow_salt_charset" ->
            [ declared(c) EXCEPT !.salt_charset = Some(DigitChars) ]

\* any(c not in cls.salt_charset for c in cls.default_salt_charset): the
\* attribute salt_charset is looked up for the first character tested
charset_check(d) ==
    IF Len(d.default_salt_charset) = 0 THEN Ok(None)
    ELSE IF d.salt_charset.isNone THEN Raise("AttributeError")
    ELSE IF \E i \in 1..Len(d.default_salt_charset) :
                d.default_salt_charset[i] \notin Range(d.salt_charset.val)
    THEN Raise("ValueError")
    ELSE Ok(None)

\* cls.validate_class()
validate_class(d) ==
    IF d.name.isNone \/ d.name.val = "" THEN Raise("ValueError")
    ELSE IF "rounds" \notin d.setting_kwds THEN Raise("ValueError")
    ELSE IF d.max_rounds.isNone THEN Raise("ValueError")
    ELSE IF d.min_rounds > d.max_rounds.val THEN Raise("ValueError")
    ELSE IF d.default_rounds.isNone THEN Raise("ValueError")
    ELSE IF d.default_rounds.val < d.min_rounds THEN Raise("ValueError")
    ELSE IF d.default_rounds.val > d.max_rounds.val THEN Raise("ValueError")
    ELSE IF d.rounds_cost \notin { "linear", "log2" } THEN Raise("ValueError")
    ELSE IF "salt" \notin d.setting_kwds THEN Raise("ValueError")
    ELSE IF d.min_salt_chars > d.max_salt_chars THEN Raise("ValueError")
    ELSE IF d.default_salt_chars < d.min_salt_chars THEN Raise("ValueError")
    ELSE IF d.default_salt_chars > d.max_salt_chars THEN Raise("ValueError")
    ELSE charset_check(d)

-----------------------------------------------------------------------------
(* The random source *)

\* getrandstr(rng, charset, count): count characters of charset; the draw
\* is the model's stand-in for the state of the random source
getrandstr(draw, charset, count) ==
    [ i \in 1..count |-> charset[((draw * 11 + i * (draw + 3)) % Len(charset)) + 1] ]

Draws == 0..(NumSeeds - 1)

-----------------------------------------------------------------------------
(* BaseSRHandler.norm_salt and norm_rounds *)

\* Faulty variants of the normalizers.  Each differs from the code in one
\* place; a property that is about that place fails for it.

\* truncates a long salt from the wrong end: salt[-mx:]
norm_salt_keeps_tail(c, salt, strict, draw) ==
    IF salt.isNone THEN
        IF strict THEN Raise("ValueError")
        ELSE Ok(getrandstr(draw, c.default_salt_charset, c.default_salt_chars))
    ELSE IF c.min_salt_chars # 0 /\ Len(salt.val) < c.min_salt_chars THEN
        Raise("ValueError")
    ELSE IF Len(salt.val) > c.max_salt_chars THEN
        IF strict THEN Raise("ValueError")
        ELSE Ok(Drop(salt.val, Len(salt.val) - c.max_salt_chars))
    ELSE Ok(salt.val)

\* treats a short salt as a correctable error: raises only when strict
norm_salt_short_when_strict(c, salt, strict, draw) ==
    IF salt.isNone THEN
        IF strict THEN Raise("ValueError")
        ELSE Ok(getrandstr(draw, c.default_salt_charset, c.default_salt_chars))
    ELSE IF c.min_salt_chars # 0 /\ Len(salt.val) < c.min_salt_chars /\ strict THEN
        Raise("ValueError")
    ELSE IF Len(salt.val) > c.max_salt_chars THEN
        IF strict THEN Raise("ValueError")
        ELSE Ok(Take(salt.val, c.max_salt_chars))
    ELSE Ok(salt.val)

\* draws max_salt_chars characters instead of default_salt_chars
norm_salt_draws_max(c, salt, strict, draw) ==
    IF salt.isNone THEN
        IF strict THEN Raise("ValueError")
        ELSE Ok(getrandstr(draw, c.default_salt_charset, c.max_salt_chars))
    ELSE IF c.min_salt_chars # 0 /\ Len(salt.val) < c.min_salt_chars THEN
        Raise("ValueError")
    ELSE IF Len(salt.val) > c.max_salt_chars THEN
        IF strict THEN Raise("ValueError")
        ELSE Ok(Take(salt.val, c.max_salt_chars))
    ELSE Ok(salt.val)

\* forgets to raise the rounds to min_rounds
norm_rounds_keeps_low(c, rounds, strict) ==
    IF rounds.isNone THEN
        IF strict THEN Raise("ValueError") ELSE Ok(c.default_rounds)
    ELSE
        LET strict1 == strict \/ c.strict_rounds_bounds
            low     == rounds.val < c.min_rounds
            high    == rounds.val > c.max_rounds
        IN  IF low /\ strict1 THEN Raise("ValueError")
            ELSE IF high /\ strict1 THEN Raise("ValueError")
            ELSE Ok(IF high THEN c.max_rounds ELSE rounds.val)

\* applies strict_rounds_bounds to the lower bound only
norm_rounds_bounds_low_only(c, rounds, strict) ==
    IF rounds.isNone THEN
        IF strict THEN Raise("ValueError") ELSE Ok(c.default_rounds)
    ELSE
        LET low  == rounds.val < c.min_rounds
            r1   == IF low THEN c.min_rounds ELSE rounds.val
            high == r1 > c.max_rounds
        IN  IF low /\ (strict \/ c.strict_rounds_bounds) THEN Raise("ValueError")
            ELSE IF high /\ strict THEN Raise("ValueError")
            ELSE Ok(IF high THEN c.max_rounds ELSE r1)

norm_salt(c, salt, strict, draw) ==
    IF salt.isNone THEN
        IF strict THEN Raise("ValueError")
        ELSE Ok(getrandstr(draw, c.default_salt_charset, c.default_salt_chars))
    ELSE IF c.min_salt_chars # 0 /\ Len(salt.val) < c.min_salt_chars THEN
        Raise("ValueError")
    ELSE IF Len(salt.val) > c.max_salt_chars THEN
        IF strict THEN Raise("ValueError")
        ELSE Ok(Take(salt.val, c.max_salt_chars))
    ELSE Ok(salt.val)

norm_rounds(c, rounds, strict) ==
    IF rounds.isNone THEN
        IF strict THEN Raise("ValueError") ELSE Ok(c.default_rounds)
    ELSE
        LET strict1 == strict \/ c.strict_rounds_bounds
            low     == rounds.val < c.min_rounds
            r1      == IF low THEN c.min_rounds ELSE rounds.val
            high    == r1 > c.max_rounds
        IN  IF low /\ strict1 THEN Raise("ValueError")
            ELSE IF high /\ strict1 THEN Raise("ValueError")
            ELSE Ok(IF high THEN c.max_rounds ELSE r1)

-----------------------------------------------------------------------------
(* BaseSRHandler.__init__ *)

\* the instance attributes, given what norm_salt (s) and norm_rounds (r)
\* returned; the salt is normalized first, so its error comes first
init_attrs(checksum, s, r) ==
    IF ~IsOk(s) THEN s
    ELSE IF ~IsOk(r) THEN r
    ELSE Ok([ checksum |-> checksum, salt |-> s.val, rounds |-> r.val ])

\* faulty variant: rounds that are supplied are stored as they are
base_init_rounds_as_given(c, checksum, salt, rounds, strict, draw) ==
    init_attrs(checksum,
               norm_salt(c, salt, strict, draw),
               IF rounds.isNone THEN norm_rounds(c, rounds, strict)
               ELSE Ok(rounds.val))

\* BaseSRHandler.__init__(checksum, salt, rounds, strict): the instance
\* attributes it sets, or the error that leaves it
base_init(c, checksum, salt, rounds, strict, draw) ==
    init_attrs(checksum,
               norm_salt(c, salt, strict, draw),
               norm_rounds(c, rounds, strict))

-----------------------------------------------------------------------------
(* sha512_crypt *)

\* rounds assumed when a string has no rounds= field
ImplicitRounds == 5000

\* length of the encoded checksum
ChecksumLen == 86

\* longest salt the hash form of the pattern takes
PatSaltMax == 16

\* the instance b with the attribute implicit_rounds set
with_implicit_rounds(b, implicit_rounds) ==
    IF ~IsOk(b) THEN b
    ELSE Ok([ checksum        |-> b.val.checksum,
              salt            |-> b.val.salt,
              rounds          |-> b.val.rounds,
              implicit_rounds |-> implicit_rounds ])

\* sha512_crypt.__init__(implicit_rounds, **kwds)
sha512_init(implicit_rounds, checksum, salt, rounds, strict, draw) ==
    with_implicit_rounds(
        base_init(sha512_crypt, checksum, salt, rounds, strict, draw),
        implicit_rounds)

\* the character class [^:$\n] of the pattern
InSaltClass == CharClass({ ":", "$", NL }, TRUE)

\* the character class [A-Za-z0-9./]
InH64 == CharClass(H64Set, FALSE)

\* the character class \d
InDigits == CharClass(DigitSet, FALSE)

\* the pattern's final $: the end of the string, or just before a newline
\* that ends it; pos is the number of characters consumed so far
AtEnd(t, pos) == pos = Len(t) \/ (pos = Len(t) - 1 /\ t[Len(t)] = NL)

NoMatch == [ matched |-> FALSE ]

\* the checksum group and the end of the pattern, after salt2 and its "$":
\* n characters of salt, then "$", then rest
pat_chk(t, rounds, n, rest) ==
    IF /\ Len(rest) >= ChecksumLen
       /\ RunLen(rest, InH64) >= ChecksumLen
       /\ AtEnd(t, n + 1 + ChecksumLen)
    THEN [ matched |-> TRUE, rounds |-> rounds,
           salt1 |-> None, salt2 |-> Some(Take(t, n)),
           chk |-> Some(Take(rest, ChecksumLen)) ]
    ELSE IF AtEnd(t, n + 1)
    THEN [ matched |-> TRUE, rounds |-> rounds,
           salt1 |-> None, salt2 |-> Some(Take(t, n)), chk |-> None ]
    ELSE NoMatch

\* the two alternatives, n the length of the longest run of [^:$\n] that
\* starts t
pat_alternatives(t, rounds, n) ==
    IF AtEnd(t, n) THEN
        [ matched |-> TRUE, rounds |-> rounds,
          salt1 |-> Some(Take(t, n)), salt2 |-> None, chk |-> None ]
    ELSE IF n <= PatSaltMax /\ n < Len(t) /\ t[n + 1] = "$" THEN
        pat_chk(t, rounds, n, Drop(t, n + 1))
    ELSE NoMatch

\* the part of the pattern after the rounds group and its "$":
\*   ( salt1:[^:$\n]*  |  salt2:[^:$\n]{0,16} \$ chk:([A-Za-z0-9./]{86})? ) $
pat_tail(t, rounds) == pat_alternatives(t, rounds, RunLen(t, InSaltClass))

RoundsPrefix == << "$", "6", "$", "r", "o", "u", "n", "d", "s", "=" >>

\* the match with the rounds group: "$6$rounds=", d digits, "$", the tail
pat_with_rounds(hash, afterEq, d) ==
    IF /\ IsPrefixOf(RoundsPrefix, hash)
       /\ d >= 1
       /\ d < Len(afterEq)
       /\ afterEq[d + 1] = "$"
    THEN pat_tail(Drop(afterEq, d + 1), Some(Take(afterEq, d)))
    ELSE NoMatch

\* the match without the rounds group: "$6$", the tail
pat_without_rounds(hash) ==
    IF IsPrefixOf(<< "$", "6", "$" >>, hash)
    THEN pat_tail(Drop(hash, 3), None)
    ELSE NoMatch

\* the optional rounds group is tried first, then the match without it
pat_first(withRounds, hash) ==
    IF withRounds.matched THEN withRounds ELSE pat_without_rounds(hash)

\* sha512_crypt._pat.match(hash): the groups rounds, salt1, salt2 and chk
pat_match(hash) ==
    pat_first(
        pat_with_rounds(hash,
                        Drop(hash, Len(RoundsPrefix)),
                        RunLen(Drop(hash, Len(RoundsPrefix)), InDigits)),
        hash)

\* faulty variant: takes the salt of the config form only
salt1_only(m) == m.salt1

\* salt1 or salt2
salt_of(m) == IF TruthyStr(m.salt1) THEN m.salt1 ELSE m.salt2

\* faulty variant: accepts any rounds token
never_zero_padded(rounds) == FALSE

\* rounds and rounds.startswith("0")
zero_padded(rounds) == TruthyStr(rounds) /\ rounds.val[1] = "0"

\* faulty variant: a string without a rounds field gets the class's
\* default_rounds
from_match_class_default(m, draw) ==
    IF ~m.matched THEN Raise("ValueError")
    ELSE IF TruthyStr(m.rounds) /\ m.rounds.val[1] = "0"
    THEN Raise("ValueError")
    ELSE sha512_init(
            Some(~TruthyStr(m.rounds)),
            m.chk,
            IF TruthyStr(m.salt1) THEN m.salt1 ELSE m.salt2,
            Some(IF TruthyStr(m.rounds) THEN ParseInt(m.rounds.val)
                 ELSE sha512_crypt.default_rounds),
            TruthyStr(m.chk),
            draw)

\* faulty variant: every parse normalizes in strict mode
from_match_always_strict(m, draw) ==
    IF ~m.matched THEN Raise("ValueError")
    ELSE IF TruthyStr(m.rounds) /\ m.rounds.val[1] = "0"
    THEN Raise("ValueError")
    ELSE sha512_init(
            Some(~TruthyStr(m.rounds)),
            m.chk,
            IF TruthyStr(m.salt1) THEN m.salt1 ELSE m.salt2,
            Some(IF TruthyStr(m.rounds) THEN ParseInt(m.rounds.val)
                 ELSE ImplicitRounds),
            TRUE,
            draw)

\* sha512_crypt.from_string, from the match object on
from_match(m, draw) ==
    IF ~m.matched THEN Raise("ValueError")
    ELSE IF zero_padded(m.rounds)
    THEN Raise("ValueError")
    ELSE sha512_init(
            Some(~TruthyStr(m.rounds)),
            m.chk,
            salt_of(m),
            Some(IF TruthyStr(m.rounds) THEN ParseInt(m.rounds.val)
                 ELSE ImplicitRounds),
            TruthyStr(m.chk),
            draw)

\* sha512_crypt.from_string(hash)
from_string(hash, draw) ==
    IF ~TruthyStr(hash) THEN Raise("ValueError")
    ELSE from_match(pat_match(hash.val), draw)

\* self.checksum or ''
checksum_or_empty(inst) ==
    IF TruthyStr(inst.checksum) THEN inst.checksum.val ELSE << >>

\* faulty variant: leaves the rounds out whenever they equal the implicit
\* default, whether or not they were given explicitly
to_string_by_value(inst) ==
    IF "$" \in Range(inst.salt) THEN Raise("AssertionError")
    ELSE IF inst.rounds = ImplicitRounds
    THEN Ok(<< "$", "6", "$" >> \o inst.salt \o << "$" >>
            \o checksum_or_empty(inst))
    ELSE Ok(RoundsPrefix \o FormatInt(inst.rounds) \o << "$" >>
            \o inst.salt \o << "$" >> \o checksum_or_empty(inst))

\* sha512_crypt.to_string(self)
to_string(inst) ==
    IF "$" \in Range(inst.salt) THEN Raise("AssertionError")
    ELSE IF inst.rounds = ImplicitRounds /\ TruthyBool(inst.implicit_rounds)
    THEN Ok(<< "$", "6", "$" >> \o inst.salt \o << "$" >>
            \o checksum_or_empty(inst))
    ELSE Ok(RoundsPrefix \o FormatInt(inst.rounds) \o << "$" >>
            \o inst.salt \o << "$" >> \o checksum_or_empty(inst))

\* r.to_string() for the instance a constructor returned, or its error
to_string_of(r) == IF ~IsOk(r) THEN r ELSE to_string(r.val)

\* sha512_crypt.genconfig(salt, rounds, implicit_rounds)
genconfig(salt, rounds, implicit_rounds, draw) ==
    to_string_of(sha512_init(implicit_rounds, None, salt, rounds, FALSE, draw))

-----------------------------------------------------------------------------
(* The digest provider *)

\* the secrets of the model; "alias" stands for a secret whose digest
\* collides with that of "test"
Secrets == { "test", "wrong", "alias" }

SecretCode(secret) ==
    CASE secret = "test"  -> 17
      [] secret = "wrong" -> 42
      [] secret = "alias" -> 17
      [] OTHER            -> 5

\* every character a string of the model may hold
AllChars == H64_CHARS \o << "$", ":", NL, "=", "!", "-" >>

RECURSIVE SumCodes(_)
SumCodes(s) ==
    IF Len(s) = 0 THEN 0
    ELSE (SumCodes(Drop(s, 1)) * 3 + IndexIn(AllChars, s[1]) + 1) % 4093

\* raw_sha_crypt(secret, salt, rounds, sha512): the digest, an opaque
\* function of the secret, the salt and the rounds, with the salt and the
\* rounds it used
raw_sha_crypt(secret, salt, rounds) ==
    [ result |-> (SecretCode(secret) * 64 + SumCodes(salt) + (rounds % 4093)) % 4093,
      salt   |-> salt,
      rounds |-> rounds ]

\* h64.encode_transposed_bytes(result, _512_offsets): 86 hash64 characters
encode_transposed_bytes(result) ==
    [ i \in 1..ChecksumLen |->
        H64_CHARS[((result + i * (1 + (result % 7))) % Len(H64_CHARS)) + 1] ]

\* the triple raw_sha512_crypt returns, given what raw_sha_crypt returned
encoded(raw) ==
    [ checksum |-> encode_transposed_bytes(raw.result),
      salt     |-> raw.salt,
      rounds   |-> raw.rounds ]

\* raw_sha512_crypt(secret, salt, rounds): (checksum, salt, rounds)
raw_sha512_crypt(secret, salt, rounds) ==
    encoded(raw_sha_crypt(secret, salt, rounds))

-----------------------------------------------------------------------------
(* sha512_crypt: genhash, encrypt, verify, identify *)

\* faulty variant: the digest is computed but the checksum is not stored
render_without_checksum(inst, raw) ==
    to_string([ inst EXCEPT !.salt   = raw.salt,
                            !.rounds = raw.rounds ])

\* self.checksum, self.salt, self.rounds = raw; return self.to_string()
render_with(inst, raw) ==
    to_string([ inst EXCEPT !.checksum = Some(raw.checksum),
                            !.salt     = raw.salt,
                            !.rounds   = raw.rounds ])

\* sha512_crypt.genhash, from the parsed instance on (builtin backend)
genhash_parsed(secret, parsed) ==
    IF ~IsOk(parsed) THEN parsed
    ELSE render_with(parsed.val,
                     raw_sha512_crypt(secret, parsed.val.salt, parsed.val.rounds))

\* sha512_crypt.genhash(secret, config)
genhash(secret, config, draw) ==
    genhash_parsed(secret, from_string(config, draw))

\* cls.genhash(secret, self.to_string()), cfg what to_string returned
genhash_of(secret, cfg, draw) ==
    IF ~IsOk(cfg) THEN cfg ELSE genhash(secret, Some(cfg.val), draw)

\* BaseSRHandler.encrypt(secret, **settings); sha512_crypt has no
\* calc_checksum, so the instance is rendered and handed to genhash.
\* draw1 is the draw of the constructor, draw2 that of genhash's parse.
encrypt(secret, salt, rounds, implicit_rounds, strict, draw1, draw2) ==
    genhash_of(secret,
               to_string_of(sha512_init(implicit_rounds, None, salt, rounds,
                                        strict, draw1)),
               draw2)

\* hash == other, other what genhash returned
same_hash(hash, other) ==
    IF ~IsOk(other) THEN other ELSE Ok(hash.val = other.val)

\* BaseSRHandler.verify(secret, hash): hash == cls.genhash(secret, hash)
verify(secret, hash, draw) == same_hash(hash, genhash(secret, hash, draw))

\* faulty variant: the ValueError of the parse is not caught
identify_uncaught(r) == IF IsOk(r) THEN Ok(TRUE) ELSE r

\* try: <r>; return True / except ValueError: return False
identify_caught(r) ==
    IF IsOk(r) THEN Ok(TRUE)
    ELSE IF r.exc = "ValueError" THEN Ok(FALSE)
    ELSE r

\* BaseSRHandler.identify(hash), the default of a class that does not
\* override it, with sha512_crypt's from_string as cls.from_string
base_identify(hash, draw) ==
    IF ~TruthyStr(hash) THEN Ok(FALSE)
    ELSE identify_caught(from_string(hash, draw))

\* CryptHandler.identify(hash) of a class without context keywords, with
\* sha512_crypt's genhash as cls.genhash
crypt_identify(hash, draw) ==
    IF ~TruthyStr(hash) THEN Ok(FALSE)
    ELSE identify_caught(genhash("stub", hash, draw))

\* sha512_crypt.identify(hash)
identify(hash) == TruthyStr(hash) /\ IsPrefixOf(<< "$", "6", "$" >>, hash.val)

-----------------------------------------------------------------------------
(* A handler without settings, built on CryptHandler *)

\* the secret as a string of characters
SecretText(secret) ==
    CASE secret = "test"  -> << "t", "e", "s", "t" >>
      [] secret = "wrong" -> << "w", "r", "o", "n", "g" >>
      [] secret = "alias" -> << "a", "l", "i", "a", "s" >>
      [] OTHER            -> << "s", "t", "u", "b" >>

\* genhash of the plaintext handler: the hash is the secret itself, and
\* every config is accepted
plaintext_genhash(secret, config) == Ok(SecretText(secret))

\* CryptHandler.identify(hash) of the plaintext handler
plaintext_identify(hash) ==
    IF ~TruthyStr(hash) THEN Ok(FALSE)
    ELSE identify_caught(plaintext_genhash("stub", hash))

\* CryptHandler.verify(secret, hash) of the plaintext handler, which has no
\* setting keywords
plaintext_verify(secret, hash) ==
    IF ~TruthyStr(hash) THEN Raise("ValueError")
    ELSE IF plaintext_identify(hash) # Ok(TRUE) THEN Raise("ValueError")
    ELSE same_hash(hash, plaintext_genhash(secret, hash))

-----------------------------------------------------------------------------
(* The context: a list of schemes and the calls dispatched to them *)

\* the scheme lists of the contexts of the model
SchemeLists ==
    { << "sha512_crypt" >>,
      << "sha512_crypt", "plaintext" >>,
      << "plaintext", "sha512_crypt" >> }

\* handler.identify(hash) of the handler registered under the name
handler_identify(name, hash) ==
    IF name = "sha512_crypt" THEN identify(hash)
    ELSE plaintext_identify(hash) = Ok(TRUE)

\* handler.verify(secret, hash) of the handler registered under the name
handler_verify(name, secret, hash, draw) ==
    IF name = "sha512_crypt" THEN verify(secret, hash, draw)
    ELSE plaintext_verify(secret, hash)

\* the position in schemes, from i on, of the first scheme whose handler
\* identifies the hash; 0 if there is none
RECURSIVE first_match(_, _, _)
first_match(schemes, i, hash) ==
    IF i > Len(schemes) THEN 0
    ELSE IF handler_identify(schemes[i], hash) THEN i
    ELSE first_match(schemes, i + 1, hash)

\* the position of the last scheme, from i on, whose handler identifies the
\* hash; 0 if there is none
RECURSIVE last_match(_, _, _)
last_match(schemes, i, hash) ==
    IF i > Len(schemes) THEN 0
    ELSE IF last_match(schemes, i + 1, hash) # 0 THEN last_match(schemes, i + 1, hash)
    ELSE IF handler_identify(schemes[i], hash) THEN i
    ELSE 0

\* faulty variant: searches the schemes in reverse order
identified_in_reverse(schemes, hash) == last_match(schemes, 1, hash)

\* the position of the scheme the context identifies the hash as
identified(schemes, hash) == first_match(schemes, 1, hash)

\* what identify returns for the scheme at position m: its name, or the
\* handler itself
identify_result(schemes, m, resolve, required) ==
    IF m = 0 THEN (IF required THEN Raise("ValueError") ELSE Ok(None))
    ELSE Ok(Some([ scheme |-> schemes[m], handler |-> resolve ]))

\* Context.identify(hash, resolve, required)
context_identify(schemes, hash, resolve, required) ==
    identify_result(schemes, identified(schemes, hash), resolve, required)

\* the verification of a hash the context identified as scheme m
verify_identified(schemes, m, secret, hash, draw) ==
    IF m = 0 THEN Raise("ValueError")
    ELSE handler_verify(schemes[m], secret, hash, draw)

\* faulty variant: an empty hash is handed to the handler like any other
context_verify_always_dispatching(schemes, secret, hash, scheme, draw) ==
    IF ~scheme.isNone THEN handler_verify(scheme.val, secret, hash, draw)
    ELSE verify_identified(schemes, identified(schemes, hash), secret, hash, draw)

\* Context.verify(secret, hash, scheme)
context_verify(schemes, secret, hash, scheme, draw) ==
    IF ~TruthyStr(hash) THEN Ok(FALSE)
    ELSE IF ~scheme.isNone THEN handler_verify(scheme.val, secret, hash, draw)
    ELSE verify_identified(schemes, identified(schemes, hash), secret, hash, draw)

-----------------------------------------------------------------------------
(* The policy: schemes, default scheme, deprecated schemes, layered options *)
(*                                                                         *)
(* A configuration mapping has the keys <<"schemes">>, <<"default">>,      *)
(* <<"deprecated">> and <<scope, option>> for "scope__option", the scope    *)
(* being "all", a category or a scheme.                                     *)

\* the sample configurations of the policy tests
sample_config_1pd ==
    ( << "schemes" >> :> << "des_crypt", "md5_crypt", "bsdi_crypt", "sha512_crypt" >> ) @@
    ( << "default" >> :> "md5_crypt" ) @@
    ( << "all", "vary_rounds" >> :> "10%" ) @@
    ( << "bsdi_crypt", "max_rounds" >> :> 30000 ) @@
    ( << "bsdi_crypt", "default_rounds" >> :> 25000 ) @@
    ( << "sha512_crypt", "max_rounds" >> :> 50000 ) @@
    ( << "sha512_crypt", "min_rounds" >> :> 40000 )

sample_config_2pd ==
    ( << "bsdi_crypt", "min_rounds" >> :> 29000 ) @@
    ( << "bsdi_crypt", "max_rounds" >> :> 35000 ) @@
    ( << "bsdi_crypt", "default_rounds" >> :> 31000 ) @@
    ( << "sha512_crypt", "min_rounds" >> :> 45000 )

sample_config_3pd ==
    ( << "default" >> :> "sha512_crypt" )

\* the overlay that deprecates two schemes
deprecated_overlay ==
    ( << "deprecated" >> :> << "des_crypt", "bsdi_crypt" >> )

\* a configuration with options of a category and of every scheme
category_config ==
    ( << "all", "max_rounds" >> :> 20000 ) @@
    ( << "admin", "max_rounds" >> :> 40000 ) @@
    ( << "admin", "vary_rounds" >> :> "5%" )

\* the names of the configurations a policy is made from
SourceNames ==
    { "sample_config_1pd", "sample_config_2pd", "sample_config_3pd",
      "category_config" }

\* the names of the configurations a policy is overlaid with
OverlayNames == SourceNames \cup { "deprecated_overlay" }

\* the configuration of a name
source(name) ==
    CASE name = "sample_config_1pd"  -> sample_config_1pd
      [] name = "sample_config_2pd"  -> sample_config_2pd
      [] name = "sample_config_3pd"  -> sample_config_3pd
      [] name = "category_config"    -> category_config
      [] name = "deprecated_overlay" -> deprecated_overlay

\* the most sources handed to from_sources at once
MaxSources == 3

\* the lists of sources handed to from_sources: the empty list, and the lists
\* of distinct sources in every order
SourceLists ==
    { l \in UNION { [ 1..n -> SourceNames ] : n \in 0..MaxSources } :
        \A i \in 1..Len(l), j \in 1..Len(l) : l[i] = l[j] => i = j }

\* the schemes and categories options are asked for
OptionSchemes == { "des_crypt", "bsdi_crypt", "sha512_crypt" }
Categories == { None, Some("admin") }

\* a mapping without keys
EmptyDict == [ k \in {} |-> 0 ]

\* target.update(other) of two mappings
updated(target, other) ==
    [ k \in DOMAIN target \cup DOMAIN other |->
        IF k \in DOMAIN other THEN other[k] ELSE target[k] ]

\* kwds.get(key)
get_or_none(kwds, key) == IF key \in DOMAIN kwds THEN Some(kwds[key]) ELSE None

\* the "scope__option" keys of a mapping, and those of one scope
option_keys(kwds) == { k \in DOMAIN kwds : Len(k) = 2 }
options_of(kwds, scope) == { k[2] : k \in { q \in option_keys(kwds) : q[1] = scope } }

\* Policy(**kwds): the options are kept per scope
policy_from_dict(kwds) ==
    [ schemes    |-> get_or_none(kwds, << "schemes" >>),
      default    |-> get_or_none(kwds, << "default" >>),
      deprecated |-> get_or_none(kwds, << "deprecated" >>),
      options    |-> [ scope \in { k[1] : k \in option_keys(kwds) } |->
                         [ o \in options_of(kwds, scope) |-> kwds[<< scope, o >>] ] ] ]

\* the keys of policy.to_dict()
dict_keys(policy) ==
    { k \in { << "schemes" >> } : ~policy.schemes.isNone }
    \cup { k \in { << "default" >> } : ~policy.default.isNone }
    \cup { k \in { << "deprecated" >> } : ~policy.deprecated.isNone }
    \cup UNION { { << scope, o >> : o \in DOMAIN policy.options[scope] } :
                 scope \in DOMAIN policy.options }

\* faulty variant: the options of "all" are left out
to_dict_without_all(policy) ==
    [ k \in { q \in dict_keys(policy) : q[1] # "all" } |->
        IF Len(k) = 2 THEN policy.options[k[1]][k[2]]
        ELSE IF k[1] = "schemes" THEN policy.schemes.val
        ELSE IF k[1] = "default" THEN policy.default.val
        ELSE policy.deprecated.val ]

\* policy.to_dict()
to_dict(policy) ==
    [ k \in dict_keys(policy) |->
        IF Len(k) = 2 THEN policy.options[k[1]][k[2]]
        ELSE IF k[1] = "schemes" THEN policy.schemes.val
        ELSE IF k[1] = "default" THEN policy.default.val
        ELSE policy.deprecated.val ]

(* The text form of a configuration: one line per key, the key split at    *)
(* its dot, the value a sequence of tokens. A number is written as its      *)
(* digits, a list as its names with "," between them, any other value as    *)
(* one word.                                                                *)

sample_config_1s ==
    ( << "schemes" >> :> << "des_crypt", ",", "md5_crypt", ",",
                            "bsdi_crypt", ",", "sha512_crypt" >> ) @@
    ( << "default" >> :> << "md5_crypt" >> ) @@
    ( << "all", "vary_rounds" >> :> << "10%" >> ) @@
    ( << "bsdi_crypt", "max_rounds" >> :> << "3", "0", "0", "0", "0" >> ) @@
    ( << "bsdi_crypt", "default_rounds" >> :> << "2", "5", "0", "0", "0" >> ) @@
    ( << "sha512_crypt", "max_rounds" >> :> << "5", "0", "0", "0", "0" >> ) @@
    ( << "sha512_crypt", "min_rounds" >> :> << "4", "0", "0", "0", "0" >> )

sample_config_2s ==
    ( << "bsdi_crypt", "min_rounds" >> :> << "2", "9", "0", "0", "0" >> ) @@
    ( << "bsdi_crypt", "max_rounds" >> :> << "3", "5", "0", "0", "0" >> ) @@
    ( << "bsdi_crypt", "default_rounds" >> :> << "3", "1", "0", "0", "0" >> ) @@
    ( << "sha512_crypt", "min_rounds" >> :> << "4", "5", "0", "0", "0" >> )

\* the keys whose value is a list of scheme names
ListKeys == { << "schemes" >>, << "deprecated" >> }

\* the value is written with digits alone
IsNumeral(value) == Len(value) > 0 /\ Range(value) \subseteq DigitSet

\* the value of a line of text, as the mapping holds it
parse_value(key, value) ==
    IF key \in ListKeys THEN SelectSeq(value, LAMBDA t : t # ",")
    ELSE IF IsNumeral(value) THEN ParseInt(value)
    ELSE value[1]

\* the names from i on, with "," between them
RECURSIVE joined(_, _)
joined(names, i) ==
    IF i > Len(names) THEN << >>
    ELSE IF i = Len(names) THEN << names[i] >>
    ELSE << names[i], "," >> \o joined(names, i + 1)

\* the value of a key of the mapping, as a line of text holds it
render_value(key, v) ==
    IF key \in ListKeys THEN joined(v, 1)
    ELSE IF Len(key) = 2 /\ key[2] # "vary_rounds" THEN FormatNat(v)
    ELSE << v >>

\* Policy.from_string(text)
policy_from_string(lines) ==
    policy_from_dict([ k \in DOMAIN lines |-> parse_value(k, lines[k]) ])

\* policy.to_string()
policy_to_string(policy) ==
    [ k \in DOMAIN to_dict(policy) |-> render_value(k, to_dict(policy)[k]) ]

\* the sources from i on, folded into target: each later source's keys
\* replace the ones folded so far
RECURSIVE folded(_, _, _)
folded(sources, i, target) ==
    IF i > Len(sources) THEN target
    ELSE folded(sources, i + 1,
                updated(target, to_dict(policy_from_dict(source(sources[i])))))

\* faulty variant: the keys folded first are kept
RECURSIVE folded_first_wins(_, _, _)
folded_first_wins(sources, i, target) ==
    IF i > Len(sources) THEN target
    ELSE folded_first_wins(sources, i + 1,
                updated(to_dict(policy_from_dict(source(sources[i]))), target))

\* faulty variant: earlier sources take precedence over later ones
from_sources_first_wins(sources) ==
    IF Len(sources) = 0 THEN Raise("ValueError")
    ELSE Ok(policy_from_dict(folded_first_wins(sources, 1, EmptyDict)))

\* Policy.from_sources(sources)
from_sources(sources) ==
    IF Len(sources) = 0 THEN Raise("ValueError")
    ELSE Ok(policy_from_dict(folded(sources, 1, EmptyDict)))

\* policy.replace(**overlay): a policy of the base's keys, updated
replace(policy, overlay) == policy_from_dict(updated(to_dict(policy), overlay))

\* the options of one scope of a policy
scope_options(policy, scope) ==
    IF scope \in DOMAIN policy.options THEN policy.options[scope] ELSE EmptyDict

\* the options of the category, if one is named
category_options(policy, category) ==
    IF category.isNone THEN EmptyDict ELSE scope_options(policy, category.val)

\* faulty variant: the options of "all" are applied last
get_options_all_last(policy, scheme, category) ==
    updated(updated(scope_options(policy, scheme),
                    category_options(policy, category)),
            scope_options(policy, "all"))

\* policy.get_options(scheme, category=None)
get_options(policy, scheme, category) ==
    updated(updated(scope_options(policy, "all"),
                    category_options(policy, category)),
            scope_options(policy, scheme))

\* policy.handler_is_deprecated(name)
handler_is_deprecated(policy, name) ==
    ~policy.deprecated.isNone /\ name \in Range(policy.deprecated.val)

\* faulty variant: the base object is overwritten with the new policy
policies_replaced_in_place(heap, base, overlay) ==
    Append([ heap EXCEPT ![base] = replace(heap[base], overlay) ],
           replace(heap[base], overlay))

\* the policy objects after heap[base].replace(**overlay): the new policy is
\* a new object
policies_after_replace(heap, base, overlay) ==
    Append(heap, replace(heap[base], overlay))

\* the text that says what the configuration of a name says
text_of(name) ==
    CASE name = "sample_config_1pd" -> sample_config_1s
      [] name = "sample_config_2pd" -> sample_config_2s
      [] OTHER -> policy_to_string(policy_from_dict(source(name)))

\* the files: the path of the file that holds a configuration, and what is
\* read from a path
path_of(name) == << "tmp", name >>
read_file(path) == text_of(path[2])

\* Policy.from_path(path)
policy_from_path(path) == policy_from_string(read_file(path))

\* the forms a source is handed over in
SourceForms == { "dict", "string", "path" }

\* a configuration in one of the forms
in_form(form, name) ==
    CASE form = "dict"   -> source(name)
      [] form = "string" -> text_of(name)
      [] form = "path"   -> path_of(name)

\* Policy.from_source(source), by what the source is
from_source(form, src) ==
    CASE form = "dict"   -> policy_from_dict(src)
      [] form = "string" -> policy_from_string(src)
      [] form = "path"   -> policy_from_path(src)

-----------------------------------------------------------------------------
(* pbkdf2.py: the encodings of salt and checksum *)
(*                                                                         *)
(* Bytes are sequences of numbers 0..255. The decoders are applied to what  *)
(* the encoders made.                                                       *)

UpperChars == SubSeq(H64_CHARS, 13, 38)
LowerChars == SubSeq(H64_CHARS, 39, 64)

\* the base64 alphabet whose last two characters are altchars
B64Table(altchars) == UpperChars \o LowerChars \o DigitChars \o altchars

\* the altchars of standard base64, of cryptacular and of ab64
STD_ALTCHARS == << "+", "/" >>
CTA_ALTCHARS == << "-", "_" >>
AB64_ALTCHARS == << ".", "/" >>

\* the k leading characters of the group of 24 bits n
b64_chars(tbl, n, k) ==
    SubSeq(<< tbl[(n \div 262144) + 1], tbl[((n \div 4096) % 64) + 1],
              tbl[((n \div 64) % 64) + 1], tbl[(n % 64) + 1] >>, 1, k)

\* the groups of data from byte i on, the last one padded with "="
RECURSIVE b64_groups(_, _, _)
b64_groups(data, i, tbl) ==
    IF i > Len(data) THEN << >>
    ELSE IF i + 2 <= Len(data) THEN
        b64_chars(tbl, data[i] * 65536 + data[i + 1] * 256 + data[i + 2], 4)
        \o b64_groups(data, i + 3, tbl)
    ELSE IF i + 1 = Len(data) THEN
        b64_chars(tbl, data[i] * 65536 + data[i + 1] * 256, 3) \o << "=" >>
    ELSE b64_chars(tbl, data[i] * 65536, 2) \o << "=", "=" >>

\* base64.b64encode(data, altchars)
b64encode(data, altchars) == b64_groups(data, 1, B64Table(altchars))

\* the k leading bytes of the group of 24 bits n
b64_bytes(n, k) ==
    SubSeq(<< n \div 65536, (n \div 256) % 256, n % 256 >>, 1, k)

\* the 6 bits of the character at position i, 0 past the end
b64_bits(chars, i, tbl) ==
    IF i > Len(chars) THEN 0 ELSE IndexIn(tbl, chars[i])

\* the 24 bits of the group of characters that starts at position i
b64_group(chars, i, tbl) ==
    b64_bits(chars, i, tbl) * 262144 + b64_bits(chars, i + 1, tbl) * 4096
    + b64_bits(chars, i + 2, tbl) * 64 + b64_bits(chars, i + 3, tbl)

\* the bytes of the characters from position i on, padding removed
RECURSIVE b64_decoded(_, _, _)
b64_decoded(chars, i, tbl) ==
    IF i + 1 > Len(chars) THEN << >>
    ELSE IF i + 3 <= Len(chars) THEN
        b64_bytes(b64_group(chars, i, tbl), 3) \o b64_decoded(chars, i + 4, tbl)
    ELSE b64_bytes(b64_group(chars, i, tbl), Len(chars) - i)

\* the characters without the padding
unpadded(chars) == SelectSeq(chars, LAMBDA c : c # "=")

\* base64.b64decode(chars, altchars)
b64decode(chars, altchars) ==
    b64_decoded(unpadded(chars), 1, B64Table(altchars))

\* passlib.utils.ab64_encode(data): base64 with "./", the padding left out
ab64_encode(data) == unpadded(b64encode(data, AB64_ALTCHARS))

\* passlib.utils.ab64_decode(chars)
ab64_decode(chars) == b64_decoded(chars, 1, B64Table(AB64_ALTCHARS))

HexLower == DigitChars \o << "a", "b", "c", "d", "e", "f" >>
HexUpper == DigitChars \o << "A", "B", "C", "D", "E", "F" >>

\* hexlify(data).upper()
RECURSIVE hexlify_upper(_, _)
hexlify_upper(data, i) ==
    IF i > Len(data) THEN << >>
    ELSE << HexUpper[(data[i] \div 16) + 1], HexUpper[(data[i] % 16) + 1] >>
         \o hexlify_upper(data, i + 1)

\* the value of a hexadecimal digit of either case
hex_value(c) ==
    IF c \in Range(HexUpper) THEN IndexIn(HexUpper, c) ELSE IndexIn(HexLower, c)

\* unhexlify(chars)
RECURSIVE unhexlify(_, _)
unhexlify(chars, i) ==
    IF i + 1 > Len(chars) THEN << >>
    ELSE << hex_value(chars[i]) * 16 + hex_value(chars[i + 1]) >>
         \o unhexlify(chars, i + 2)

\* "%x" % n
RECURSIVE FormatHex(_)
FormatHex(n) ==
    IF n < 16 THEN << HexLower[n + 1] >>
    ELSE FormatHex(n \div 16) \o << HexLower[(n % 16) + 1] >>

\* int(s, 16) for a string of hexadecimal digits
RECURSIVE ParseHex(_)
ParseHex(s) ==
    IF Len(s) = 0 THEN 0
    ELSE 16 * ParseHex(SubSeq(s, 1, Len(s) - 1)) + hex_value(s[Len(s)])

-----------------------------------------------------------------------------
(* pbkdf2.py: the field grammar ident [rounds] sep salt [sep checksum] *)

\* the digits of a rounds base
digits_of(rounds_base) ==
    IF rounds_base = 16 THEN Range(HexLower) \cup Range(HexUpper) ELSE DigitSet

\* int(field, rounds_base)
parse_rounds(field, rounds_base) ==
    IF rounds_base = 16 THEN ParseHex(field) ELSE ParseInt(field)

\* the rounds as render_mc3 writes them
format_rounds(rounds, rounds_base) ==
    IF rounds_base = 16 THEN FormatHex(rounds) ELSE FormatNat(rounds)

\* the positions of the separator in s
sep_positions(s, sep) == { i \in 1..Len(s) : s[i] = sep }

\* the position of the k-th separator; 0 and Len(s) + 1 bound the string
nth_sep(s, sep, k) ==
    IF k = 0 THEN 0
    ELSE IF k > Cardinality(sep_positions(s, sep)) THEN Len(s) + 1
    ELSE CHOOSE p \in sep_positions(s, sep) :
            Cardinality({ q \in sep_positions(s, sep) : q <= p }) = k

\* s.split(sep)
split(s, sep) ==
    [ k \in 1..(Cardinality(sep_positions(s, sep)) + 1) |->
        SubSeq(s, nth_sep(s, sep, k - 1) + 1, nth_sep(s, sep, k) - 1) ]

\* the rounds of a rounds field: zero padding is refused, an empty field
\* stands for the default where there is one
mc3_rounds(field, rounds_base, default_rounds) ==
    IF Len(field) > 1 /\ field[1] = "0" THEN Raise("ValueError")
    ELSE IF Len(field) > 0 THEN
        IF Range(field) \subseteq digits_of(rounds_base)
        THEN Ok(parse_rounds(field, rounds_base))
        ELSE Raise("ValueError")
    ELSE IF default_rounds.isNone THEN Raise("ValueError")
    ELSE Ok(default_rounds.val)

\* the fields of two or three parts: rounds, salt, and the checksum or None
mc3_fields(parts, rounds) ==
    IF ~IsOk(rounds) THEN rounds
    ELSE Ok([ rounds |-> rounds.val,
              salt   |-> parts[2],
              chk    |-> IF Len(parts) = 3 /\ Len(parts[3]) > 0
                         THEN Some(parts[3]) ELSE None ])

\* the fields of the parts after the ident
mc3_parts(parts, rounds_base, default_rounds) ==
    IF Len(parts) \notin { 2, 3 } THEN Raise("ValueError")
    ELSE mc3_fields(parts, mc3_rounds(parts[1], rounds_base, default_rounds))

\* uh.parse_mc3(hash, prefix, sep, rounds_base, default_rounds)
parse_mc3(hash, prefix, sep, rounds_base, default_rounds) ==
    IF ~IsPrefixOf(prefix, hash) THEN Raise("ValueError")
    ELSE mc3_parts(split(Drop(hash, Len(prefix)), sep),
                   rounds_base, default_rounds)

\* uh.render_mc3(ident, rounds, salt, checksum, sep, rounds_base)
render_mc3(ident, rounds, salt, checksum, sep, rounds_base) ==
    ident
    \o (IF rounds.isNone THEN << >> ELSE format_rounds(rounds.val, rounds_base))
    \o << sep >> \o salt
    \o (IF TruthyStr(checksum) THEN << sep >> \o checksum.val ELSE << >>)

-----------------------------------------------------------------------------
(* pbkdf2.py: the handlers *)

\* a string literal of the source as a sequence of characters
pbkdf2_ident == << "$", "p", "b", "k", "d", "f", "2", "$" >>
pbkdf2_sha256_ident ==
    << "$", "p", "b", "k", "d", "f", "2", "-", "s", "h", "a", "2", "5", "6", "$" >>
pbkdf2_sha512_ident ==
    << "$", "p", "b", "k", "d", "f", "2", "-", "s", "h", "a", "5", "1", "2", "$" >>
p5k2_ident == << "$", "p", "5", "k", "2", "$" >>
atlassian_ident == << "{", "P", "K", "C", "S", "5", "S", "2", "}" >>
grub_ident ==
    << "g", "r", "u", "b", ".", "p", "b", "k", "d", "f", "2", ".",
       "s", "h", "a", "5", "1", "2", "." >>
ldap_pbkdf2_ident == << "{", "P", "B", "K", "D", "F", "2", "}" >>
ldap_pbkdf2_sha256_ident ==
    << "{", "P", "B", "K", "D", "F", "2", "-", "S", "H", "A", "2", "5", "6", "}" >>
ldap_pbkdf2_sha512_ident ==
    << "{", "P", "B", "K", "D", "F", "2", "-", "S", "H", "A", "5", "1", "2", "}" >>

\* the handlers that are classes of their own, and the ldap wrappers
Pbkdf2Handlers ==
    { "pbkdf2_sha1", "pbkdf2_sha256", "pbkdf2_sha512", "cta_pbkdf2_sha1",
      "dlitz_pbkdf2_sha1", "atlassian_pbkdf2_sha1", "grub_pbkdf2_sha512" }
LdapWrappers == { "ldap_pbkdf2_sha1", "ldap_pbkdf2_sha256", "ldap_pbkdf2_sha512" }
DigestHandlers == { "pbkdf2_sha1", "pbkdf2_sha256", "pbkdf2_sha512" }

\* the ident table with the ident of pbkdf2_sha1 cut before its closing "$"
ident_unterminated(h) ==
    CASE h = "pbkdf2_sha1" -> SubSeq(pbkdf2_ident, 1, Len(pbkdf2_ident) - 1)
      [] h = "pbkdf2_sha256" -> pbkdf2_sha256_ident
      [] h = "pbkdf2_sha512" -> pbkdf2_sha512_ident
      [] h = "cta_pbkdf2_sha1" -> p5k2_ident
      [] h = "dlitz_pbkdf2_sha1" -> p5k2_ident
      [] h = "atlassian_pbkdf2_sha1" -> atlassian_ident
      [] h = "grub_pbkdf2_sha512" -> grub_ident
      [] h = "ldap_pbkdf2_sha1" -> ldap_pbkdf2_ident
      [] h = "ldap_pbkdf2_sha256" -> ldap_pbkdf2_sha256_ident
      [] h = "ldap_pbkdf2_sha512" -> ldap_pbkdf2_sha512_ident

\* handler.ident
ident(h) ==
    CASE h = "pbkdf2_sha1" -> pbkdf2_ident
      [] h = "pbkdf2_sha256" -> pbkdf2_sha256_ident
      [] h = "pbkdf2_sha512" -> pbkdf2_sha512_ident
      [] h = "cta_pbkdf2_sha1" -> p5k2_ident
      [] h = "dlitz_pbkdf2_sha1" -> p5k2_ident
      [] h = "atlassian_pbkdf2_sha1" -> atlassian_ident
      [] h = "grub_pbkdf2_sha512" -> grub_ident
      [] h = "ldap_pbkdf2_sha1" -> ldap_pbkdf2_ident
      [] h = "ldap_pbkdf2_sha256" -> ldap_pbkdf2_sha256_ident
      [] h = "ldap_pbkdf2_sha512" -> ldap_pbkdf2_sha512_ident

\* handler.checksum_size, None where the class declares none
checksum_size(h) ==
    CASE h = "pbkdf2_sha1" -> Some(20)
      [] h = "pbkdf2_sha256" -> Some(32)
      [] h = "pbkdf2_sha512" -> Some(64)
      [] h = "atlassian_pbkdf2_sha1" -> Some(32)
      [] OTHER -> None

\* handler.min_salt_size and handler.max_salt_size
pbkdf2_min_salt_size(h) == IF h = "atlassian_pbkdf2_sha1" THEN 16 ELSE 0
pbkdf2_max_salt_size(h) == IF h = "atlassian_pbkdf2_sha1" THEN 16 ELSE 1024

\* handler.min_rounds
pbkdf2_min_rounds == 1

\* "rounds" in handler.setting_kwds
has_rounds(h) == h # "atlassian_pbkdf2_sha1"

\* the rounds of dlitz_pbkdf2_sha1 that stand for an empty rounds field
DLITZ_IMPLICIT_ROUNDS == 400

\* atlassian_pbkdf2_sha1._stub_checksum
stub_checksum == [ i \in 1..32 |-> 0 ]

-----------------------------------------------------------------------------
(* pbkdf2.py: construction, as the handler framework normalizes the settings *)

\* the checksum as the constructor keeps it: a declared size is enforced
checksum_checked(h, checksum) ==
    IF checksum.isNone THEN Ok(None)
    ELSE IF ~checksum_size(h).isNone /\ Len(checksum.val) # checksum_size(h).val
    THEN Raise("ValueError")
    ELSE Ok(checksum)

\* the salt as the constructor keeps it: too short is an error, too long is
\* truncated in relaxed mode; dlitz_pbkdf2_sha1 takes hash64 characters only
salt_checked(h, salt, relaxed) ==
    IF h = "dlitz_pbkdf2_sha1" /\ ~(Range(salt) \subseteq Range(H64_CHARS))
    THEN Raise("ValueError")
    ELSE IF Len(salt) < pbkdf2_min_salt_size(h) THEN Raise("ValueError")
    ELSE IF Len(salt) > pbkdf2_max_salt_size(h) THEN
        IF relaxed THEN Ok(Take(salt, pbkdf2_max_salt_size(h)))
        ELSE Raise("ValueError")
    ELSE Ok(salt)

\* the rounds as the constructor keeps them: too few are raised to the
\* minimum in relaxed mode (max_rounds, 0xffffffff, is beyond the values
\* taken here)
rounds_checked(rounds, relaxed) ==
    IF rounds < pbkdf2_min_rounds THEN
        IF relaxed THEN Ok(pbkdf2_min_rounds) ELSE Raise("ValueError")
    ELSE Ok(rounds)

\* the instance of the checked settings, or the first error
pbkdf2_instance(h, chk, salt, rounds) ==
    IF ~IsOk(chk) THEN chk
    ELSE IF ~IsOk(salt) THEN salt
    ELSE IF ~has_rounds(h) THEN
        Ok([ handler |-> h, salt |-> salt.val, checksum |-> chk.val ])
    ELSE IF ~IsOk(rounds) THEN rounds
    ELSE Ok([ handler |-> h, rounds |-> rounds.val, salt |-> salt.val,
              checksum |-> chk.val ])

\* handler(rounds=rounds, salt=salt, checksum=checksum, relaxed=relaxed);
\* rounds is ignored by a handler without rounds
pbkdf2_init(h, rounds, salt, checksum, relaxed) ==
    pbkdf2_instance(h, checksum_checked(h, checksum),
                    salt_checked(h, salt, relaxed),
                    IF has_rounds(h) THEN rounds_checked(rounds, relaxed)
                    ELSE Ok(0))

\* the warnings that the construction issues, in order
pbkdf2_warnings(h, rounds, salt, checksum, relaxed) ==
    IF ~IsOk(checksum_checked(h, checksum)) THEN << >>
    ELSE IF ~IsOk(salt_checked(h, salt, relaxed)) THEN << >>
    ELSE (IF Len(salt) > pbkdf2_max_salt_size(h)
          THEN << [ handler |-> h, about |-> "salt" ] >> ELSE << >>)
         \o (IF has_rounds(h) /\ relaxed /\ rounds < pbkdf2_min_rounds
             THEN << [ handler |-> h, about |-> "rounds" ] >> ELSE << >>)

-----------------------------------------------------------------------------
(* pbkdf2.py: from_string and to_string of each handler *)

\* None stays None, a checksum is decoded
digest_chk(chk) == IF TruthyStr(chk) THEN Some(ab64_decode(chk.val)) ELSE chk
cta_chk(chk) == IF TruthyStr(chk) THEN Some(b64decode(chk.val, CTA_ALTCHARS)) ELSE chk
grub_chk(chk) == IF TruthyStr(chk) THEN Some(unhexlify(chk.val, 1)) ELSE chk

\* the instance of the parsed fields, or the error of the parse
digest_parsed(h, p) ==
    IF ~IsOk(p) THEN p
    ELSE pbkdf2_init(h, p.val.rounds, ab64_decode(p.val.salt),
                     digest_chk(p.val.chk), FALSE)

\* Pbkdf2DigestHandler.from_string(hash) of the derived handler h
digest_from_string(h, hash) ==
    digest_parsed(h, parse_mc3(hash, ident(h), "$", 10, None))

\* the checksum that is written: none without withchk or without a checksum
written_chk(inst, withchk) == withchk /\ TruthyStr(inst.checksum)

\* Pbkdf2DigestHandler.to_string(withchk)
digest_to_string(inst, withchk) ==
    render_mc3(ident(inst.handler), Some(inst.rounds), ab64_encode(inst.salt),
               IF written_chk(inst, withchk)
               THEN Some(ab64_encode(inst.checksum.val)) ELSE None,
               "$", 10)

cta_parsed(p) ==
    IF ~IsOk(p) THEN p
    ELSE pbkdf2_init("cta_pbkdf2_sha1", p.val.rounds,
                     b64decode(p.val.salt, CTA_ALTCHARS), cta_chk(p.val.chk), FALSE)

\* cta_pbkdf2_sha1.from_string(hash)
cta_from_string(hash) ==
    cta_parsed(parse_mc3(hash, ident("cta_pbkdf2_sha1"), "$", 16, None))

\* cta_pbkdf2_sha1.to_string(withchk)
cta_to_string(inst, withchk) ==
    render_mc3(ident(inst.handler), Some(inst.rounds),
               b64encode(inst.salt, CTA_ALTCHARS),
               IF written_chk(inst, withchk)
               THEN Some(b64encode(inst.checksum.val, CTA_ALTCHARS)) ELSE None,
               "$", 16)

dlitz_parsed(p) ==
    IF ~IsOk(p) THEN p
    ELSE pbkdf2_init("dlitz_pbkdf2_sha1", p.val.rounds, p.val.salt, p.val.chk, FALSE)

\* dlitz_pbkdf2_sha1.from_string(hash)
dlitz_from_string(hash) ==
    dlitz_parsed(parse_mc3(hash, ident("dlitz_pbkdf2_sha1"), "$", 16,
                           Some(DLITZ_IMPLICIT_ROUNDS)))

\* a to_string that writes the rounds whatever they are
dlitz_to_string_with_rounds(inst, withchk) ==
    render_mc3(ident(inst.handler), Some(inst.rounds), inst.salt,
               IF withchk THEN inst.checksum ELSE None, "$", 16)

\* dlitz_pbkdf2_sha1.to_string(withchk)
dlitz_to_string(inst, withchk) ==
    render_mc3(ident(inst.handler),
               IF inst.rounds = DLITZ_IMPLICIT_ROUNDS THEN None ELSE Some(inst.rounds),
               inst.salt, IF withchk THEN inst.checksum ELSE None, "$", 16)

\* the instance of the decoded data: 16 bytes of salt, the rest is checksum
atlassian_decoded(data) ==
    pbkdf2_init("atlassian_pbkdf2_sha1", 0, Take(data, 16), Some(Drop(data, 16)), FALSE)

\* atlassian_pbkdf2_sha1.from_string(hash)
atlassian_from_string(hash) ==
    IF ~IsPrefixOf(ident("atlassian_pbkdf2_sha1"), hash) THEN Raise("ValueError")
    ELSE atlassian_decoded(
            b64decode(Drop(hash, Len(ident("atlassian_pbkdf2_sha1"))), STD_ALTCHARS))

\* atlassian_pbkdf2_sha1.to_string()
atlassian_to_string(inst) ==
    ident(inst.handler)
    \o b64encode(inst.salt \o (IF TruthyStr(inst.checksum) THEN inst.checksum.val
                               ELSE stub_checksum),
                 STD_ALTCHARS)

grub_parsed(p) ==
    IF ~IsOk(p) THEN p
    ELSE pbkdf2_init("grub_pbkdf2_sha512", p.val.rounds, unhexlify(p.val.salt, 1),
                     grub_chk(p.val.chk), FALSE)

\* grub_pbkdf2_sha512.from_string(hash)
grub_from_string(hash) ==
    grub_parsed(parse_mc3(hash, ident("grub_pbkdf2_sha512"), ".", 10, None))

\* grub_pbkdf2_sha512.to_string(withchk)
grub_to_string(inst, withchk) ==
    render_mc3(ident(inst.handler), Some(inst.rounds), hexlify_upper(inst.salt, 1),
               IF written_chk(inst, withchk)
               THEN Some(hexlify_upper(inst.checksum.val, 1)) ELSE None,
               ".", 10)

\* handler.from_string(hash)
pbkdf2_from_string(h, hash) ==
    CASE h \in DigestHandlers -> digest_from_string(h, hash)
      [] h = "cta_pbkdf2_sha1" -> cta_from_string(hash)
      [] h = "dlitz_pbkdf2_sha1" -> dlitz_from_string(hash)
      [] h = "atlassian_pbkdf2_sha1" -> atlassian_from_string(hash)
      [] h = "grub_pbkdf2_sha512" -> grub_from_string(hash)

\* instance.to_string(withchk); atlassian_pbkdf2_sha1 has no withchk
pbkdf2_to_string(inst, withchk) ==
    CASE inst.handler \in DigestHandlers -> digest_to_string(inst, withchk)
      [] inst.handler = "cta_pbkdf2_sha1" -> cta_to_string(inst, withchk)
      [] inst.handler = "dlitz_pbkdf2_sha1" -> dlitz_to_string(inst, withchk)
      [] inst.handler = "atlassian_pbkdf2_sha1" -> atlassian_to_string(inst)
      [] inst.handler = "grub_pbkdf2_sha512" -> grub_to_string(inst, withchk)

\* the handlers, wrappers included, whose ident the string starts with
claimed_by(hash) ==
    { h \in Pbkdf2Handlers \cup LdapWrappers : IsPrefixOf(ident(h), hash) }

-----------------------------------------------------------------------------
(* Requests: what a caller may pass as salt and rounds *)

\* a salt of n characters of the hash64 alphabet
SaltOfLen(n) == [ i \in 1..n |-> H64_CHARS[((i * 5 + n) % 64) + 1] ]

SaltLens(c) ==
    { n \in 0..(c.max_salt_chars + SaltOver) :
        \/ n <= 1
        \/ n >= c.max_salt_chars - 1
        \/ n \in { c.min_salt_chars - 1, c.min_salt_chars, c.default_salt_chars } }

\* salts with characters outside the hash64 alphabet, and salts that look
\* like a rounds field
OddSalts ==
    { << "a", "!", "b" >>,
      << "a", "$", "b" >>,
      << "a", ":", "b" >>,
      << "a", "b", NL >>,
      << "r", "o", "u", "n", "d", "s", "=", "1", "2", "3", "4" >>,
      << "r", "o", "u", "n", "d", "s", "=", "0", "1", "2", "3" >> }

SaltRequests(c) ==
    { None } \cup { Some(SaltOfLen(n)) : n \in SaltLens(c) }
    \cup (IF c = sha512_crypt THEN { Some(x) : x \in OddSalts } ELSE {})

RoundsRequests(c) ==
    { None } \cup
    { Some(r) : r \in
        { c.min_rounds - k : k \in 0..RoundsSlack } \cup
        { c.max_rounds + k : k \in 0..RoundsSlack } \cup
        { c.default_rounds } \cup
        (IF c = sha512_crypt THEN { ImplicitRounds, 10000 } ELSE {}) }

\* the values a caller may pass as implicit_rounds
ImplicitArgs == { None, Some(TRUE), Some(FALSE) }

\* a checksum as the digest provider produces them
SampleChecksum == encode_transposed_bytes(7)

-----------------------------------------------------------------------------
(* Strings handed to from_string, genhash and verify from outside *)

ProbeHeads == { << "$", "6" >>, << "$", "5" >> }

ProbeRoundsTokens ==
    { << "0" >>,
      << "0", "1", "0", "0", "0" >>,
      << "9", "9", "9" >>,
      << "1", "0", "0", "0" >>,
      << "5", "0", "0", "0" >>,
      << "0", "5", "0", "0", "0" >>,
      << "1", "0", "0", "0", "0" >> }

RoundsFieldPrefix == << "$", "r", "o", "u", "n", "d", "s", "=" >>

ProbeRoundsFields ==
    { << >>, RoundsFieldPrefix } \cup
    { RoundsFieldPrefix \o tok : tok \in ProbeRoundsTokens }

ProbeSalts ==
    { << >>, << "a", "b" >>, SaltOfLen(16), SaltOfLen(17),
      << "a", "!", "b" >>, << "a", ":", "b" >> }

ProbeTails ==
    { << >>,
      << NL >>,
      << "$" >>,
      << "$" >> \o SampleChecksum,
      << "$" >> \o Take(SampleChecksum, ChecksumLen - 1),
      << "$" >> \o SampleChecksum \o << "x" >>,
      << "$" >> \o SampleChecksum \o << NL >> }

ProbeTexts ==
    { None, Some(<< >>) } \cup
    { Some(h \o rf \o << "$" >> \o s \o t) :
        h \in ProbeHeads, rf \in ProbeRoundsFields, s \in ProbeSalts, t \in ProbeTails }

-----------------------------------------------------------------------------
(* State machine *)
(*                                                                         *)
(* cls     the handler class the calls go to                               *)
(* req     the salt and the rounds the caller asks for                     *)
(* text    the config or hash string at hand: None, a string handed in     *)
(*         from outside, or the result of the last call that made one      *)
(* origin  how text came about                                             *)
(* op      the last call, args its other arguments, ret what it returned   *)
(* policies the policy objects made so far, in the order they were made;   *)
(*         a call that returns a policy returns its place in policies      *)
(* warned  the warnings issued so far, in the order they were issued        *)
(*                                                                         *)
(* A caller first makes one call on req (a normalizer, a constructor,      *)
(* genconfig, encrypt) or is handed a string from outside; once a string   *)
(* is at hand it renders, parses, hashes and verifies in any order.        *)

NoArgs == [ strict |-> FALSE ]

Init ==
    /\ \/ /\ cls \in Classes
          /\ req \in [ salt : SaltRequests(cls), rounds : RoundsRequests(cls) ]
          /\ text = None
          /\ origin = [ kind |-> "none" ]
       \/ /\ cls = sha512_crypt
          /\ req = [ salt |-> None, rounds |-> None ]
          /\ text \in ProbeTexts
          /\ origin = [ kind |-> "outside" ]
    /\ op = "init"
    /\ args = NoArgs
    /\ ret = Ok(None)
    /\ policies = << >>
    /\ warned = << >>

\* the last call returned a handler instance
HasInstance == op \in { "sha512_init", "from_string" } /\ IsOk(ret)

\* nothing has been called yet and no string is at hand: the calls that work
\* on req alone are a caller's first call
Fresh == op = "init" /\ origin.kind = "none"

\* the last call made or received the string at hand (it was not itself a
\* parse or a verification of it): each string is parsed, hashed and verified
\* from the state that produced it
AtHand ==
    op \in { "init", "to_string", "genconfig", "genhash", "encrypt" }

\* cls.norm_salt(req.salt, strict=strict)
NormSaltCall ==
    \E strict \in BOOLEAN, draw \in Draws :
        /\ Fresh
        /\ op' = "norm_salt"
        /\ args' = [ strict |-> strict ]
        /\ ret' = norm_salt(cls, req.salt, strict, draw)
        /\ UNCHANGED <<cls, req, text, origin, policies, warned>>

\* cls.norm_rounds(req.rounds, strict=strict)
NormRoundsCall ==
    \E strict \in BOOLEAN :
        /\ Fresh
        /\ op' = "norm_rounds"
        /\ args' = [ strict |-> strict ]
        /\ ret' = norm_rounds(cls, req.rounds, strict)
        /\ UNCHANGED <<cls, req, text, origin, policies, warned>>

\* BaseSRHandler.__init__ of any class: cls(salt=, rounds=, strict=)
BaseInitCall ==
    \E strict \in BOOLEAN, draw \in Draws :
        /\ cls # sha512_crypt
        /\ Fresh
        /\ op' = "base_init"
        /\ args' = [ strict |-> strict ]
        /\ ret' = base_init(cls, None, req.salt, req.rounds, strict, draw)
        /\ UNCHANGED <<cls, req, text, origin, policies, warned>>

\* sha512_crypt(implicit_rounds=, checksum=, salt=, rounds=, strict=)
Sha512InitCall ==
    \E strict \in BOOLEAN, imp \in ImplicitArgs, draw \in Draws,
       chk \in { None, Some(SampleChecksum) } :
        /\ cls = sha512_crypt
        /\ Fresh
        /\ op' = "sha512_init"
        /\ args' = [ strict |-> strict, implicit_rounds |-> imp, checksum |-> chk ]
        /\ ret' = sha512_init(imp, chk, req.salt, req.rounds, strict, draw)
        /\ UNCHANGED <<cls, req, text, origin, policies, warned>>

\* self.to_string()
ToStringCall ==
    /\ cls = sha512_crypt
    /\ HasInstance
    /\ op' = "to_string"
    /\ args' = NoArgs
    /\ ret' = to_string(ret.val)
    /\ text' = IF IsOk(ret') THEN Some(ret'.val) ELSE text
    /\ origin' = IF IsOk(ret') THEN [ kind |-> "to_string", inst |-> ret.val ]
                 ELSE origin
    /\ UNCHANGED <<cls, req, policies, warned>>

\* sha512_crypt.from_string(text)
FromStringCall ==
    \E draw \in Draws :
        /\ cls = sha512_crypt
        /\ AtHand
        /\ op' = "from_string"
        /\ args' = NoArgs
        /\ ret' = from_string(text, draw)
        /\ UNCHANGED <<cls, req, text, origin, policies, warned>>

\* sha512_crypt.genconfig(salt=, rounds=, implicit_rounds=)
GenconfigCall ==
    \E imp \in ImplicitArgs, draw \in Draws :
        /\ cls = sha512_crypt
        /\ Fresh
        /\ op' = "genconfig"
        /\ args' = [ strict |-> FALSE, implicit_rounds |-> imp ]
        /\ ret' = genconfig(req.salt, req.rounds, imp, draw)
        /\ text' = IF IsOk(ret') THEN Some(ret'.val) ELSE text
        /\ origin' = IF IsOk(ret') THEN [ kind |-> "genconfig" ] ELSE origin
        /\ UNCHANGED <<cls, req, policies, warned>>

\* sha512_crypt.genhash(secret, text), text a config or a hash
GenhashCall ==
    \E secret \in Secrets, draw \in Draws :
        /\ cls = sha512_crypt
        /\ origin.kind \in { "outside", "genconfig", "to_string" }
        /\ AtHand
        /\ op' = "genhash"
        /\ args' = [ strict |-> FALSE, secret |-> secret, config |-> text ]
        /\ ret' = genhash(secret, text, draw)
        /\ text' = IF IsOk(ret') THEN Some(ret'.val) ELSE text
        /\ origin' = IF IsOk(ret') THEN [ kind |-> "genhash", secret |-> secret ]
                     ELSE origin
        /\ UNCHANGED <<cls, req, policies, warned>>

\* sha512_crypt.encrypt(secret, salt=, rounds=, implicit_rounds=, strict=)
EncryptCall ==
    \E secret \in Secrets, imp \in ImplicitArgs, strict \in BOOLEAN,
       draw1 \in Draws, draw2 \in Draws :
        /\ cls = sha512_crypt
        /\ Fresh
        /\ op' = "encrypt"
        /\ args' = [ strict |-> strict, secret |-> secret, implicit_rounds |-> imp ]
        /\ ret' = encrypt(secret, req.salt, req.rounds, imp, strict, draw1, draw2)
        /\ text' = IF IsOk(ret') THEN Some(ret'.val) ELSE text
        /\ origin' = IF IsOk(ret') THEN [ kind |-> "encrypt", secret |-> secret ]
                     ELSE origin
        /\ UNCHANGED <<cls, req, policies, warned>>

\* sha512_crypt.verify(secret, text)
VerifyCall ==
    \E secret \in Secrets, draw \in Draws :
        /\ cls = sha512_crypt
        /\ AtHand
        /\ op' = "verify"
        /\ args' = [ strict |-> FALSE, secret |-> secret ]
        /\ ret' = verify(secret, text, draw)
        /\ UNCHANGED <<cls, req, text, origin, policies, warned>>

\* a string, or None, is at hand for identify
Identifiable == cls = sha512_crypt /\ origin.kind # "none" /\ AtHand

\* sha512_crypt.identify(text)
IdentifyCall ==
    /\ Identifiable
    /\ op' = "identify"
    /\ args' = NoArgs
    /\ ret' = Ok(identify(text))
    /\ UNCHANGED <<cls, req, text, origin, policies, warned>>

\* BaseSRHandler.identify(text)
BaseIdentifyCall ==
    \E draw \in Draws :
        /\ Identifiable
        /\ op' = "base_identify"
        /\ args' = NoArgs
        /\ ret' = base_identify(text, draw)
        /\ UNCHANGED <<cls, req, text, origin, policies, warned>>

\* CryptHandler.identify(text)
CryptIdentifyCall ==
    \E draw \in Draws :
        /\ Identifiable
        /\ op' = "crypt_identify"
        /\ args' = NoArgs
        /\ ret' = crypt_identify(text, draw)
        /\ UNCHANGED <<cls, req, text, origin, policies, warned>>

\* a string the context is asked about: one handed in from outside (None,
\* the empty string, or a string without "$rounds=" after its head), or a
\* hash encrypt just made from salt and rounds alone
ForContext ==
    /\ cls = sha512_crypt
    /\ \/ /\ op = "init"
          /\ origin.kind = "outside"
          /\ (TruthyStr(text) => ~IsPrefixOf(RoundsFieldPrefix, Drop(text.val, 2)))
       \/ /\ op = "encrypt"
          /\ origin.kind = "encrypt"
          /\ ~args.strict
          /\ args.implicit_rounds = None

\* Context.identify(text, resolve=, required=)
ContextIdentifyCall ==
    \E schemes \in SchemeLists, resolve \in BOOLEAN, required \in BOOLEAN :
        /\ ForContext
        /\ op' = "context_identify"
        /\ args' = [ strict |-> FALSE, schemes |-> schemes,
                     resolve |-> resolve, required |-> required ]
        /\ ret' = context_identify(schemes, text, resolve, required)
        /\ UNCHANGED <<cls, req, text, origin, policies, warned>>

\* Context.verify(secret, text, scheme=)
ContextVerifyCall ==
    \E schemes \in SchemeLists, secret \in { "test", "wrong" }, draw \in Draws :
        \E scheme \in { None } \cup { Some(schemes[i]) : i \in 1..Len(schemes) } :
            /\ ForContext
            /\ op' = "context_verify"
            /\ args' = [ strict |-> FALSE, schemes |-> schemes,
                         secret |-> secret, scheme |-> scheme ]
            /\ ret' = context_verify(schemes, secret, text, scheme, draw)
            /\ UNCHANGED <<cls, req, text, origin, policies, warned>>

\* the encoders read nothing but their arguments; they are called from the
\* state in which nothing else has been called and no string is at hand
NothingAtHand == op = "init" /\ origin.kind = "outside" /\ text = None

\* h64_encode_3_offsets(buffer, o1, o2, o3)
Encode3Call ==
    \E b1 \in ByteSamples, b2 \in ByteSamples, b3 \in ByteSamples, o \in Offsets3 :
        /\ NothingAtHand
        /\ op' = "h64_encode_3_offsets"
        /\ args' = [ strict |-> FALSE, buffer |-> << b1, b2, b3 >>, offsets |-> o ]
        /\ ret' = Ok(h64_encode_3_offsets(<< b1, b2, b3 >>, o[1], o[2], o[3]))
        /\ UNCHANGED <<cls, req, text, origin, policies, warned>>

\* h64_encode_2_offsets(buffer, o1, o2)
Encode2Call ==
    \E b1 \in ByteSamples, b2 \in ByteSamples, o \in Offsets2 :
        /\ NothingAtHand
        /\ op' = "h64_encode_2_offsets"
        /\ args' = [ strict |-> FALSE, buffer |-> << b1, b2 >>, offsets |-> o ]
        /\ ret' = Ok(h64_encode_2_offsets(<< b1, b2 >>, o[1], o[2]))
        /\ UNCHANGED <<cls, req, text, origin, policies, warned>>

\* h64_encode_1_offset(buffer, o1), for every byte
Encode1Call ==
    \E b \in 0..255, o \in { 0, 1 } :
        /\ NothingAtHand
        /\ op' = "h64_encode_1_offset"
        /\ args' = [ strict |-> FALSE, buffer |-> << b, 255 - b >>, offsets |-> << o >> ]
        /\ ret' = Ok(h64_encode_1_offset(<< b, 255 - b >>, o))
        /\ UNCHANGED <<cls, req, text, origin, policies, warned>>

\* no request is made of the class: validate_class reads the class alone
NoRequest == Fresh /\ req = [ salt |-> None, rounds |-> None ]

\* cls.validate_class(), cls a subclass that differs from its record in one
\* way
ValidateClassCall ==
    \E v \in ClassVariants :
        /\ NoRequest
        /\ op' = "validate_class"
        /\ args' = [ strict |-> FALSE, variant |-> v ]
        /\ ret' = validate_class(variant(cls, v))
        /\ UNCHANGED <<cls, req, text, origin, policies, warned>>

\* Policy.from_sources(sources): the policy made is a new object
FromSourcesCall ==
    \E sources \in SourceLists :
        /\ NothingAtHand
        /\ op' = "from_sources"
        /\ args' = [ strict |-> FALSE, sources |-> sources ]
        /\ policies' = IF IsOk(from_sources(sources))
                       THEN Append(policies, from_sources(sources).val)
                       ELSE policies
        /\ ret' = IF IsOk(from_sources(sources)) THEN Ok(Len(policies'))
                  ELSE from_sources(sources)
        /\ UNCHANGED <<cls, req, text, origin, warned>>

\* Policy.from_source(source), the source a mapping, a text or a path
FromSourceCall ==
    \E form \in SourceForms, name \in OverlayNames :
        /\ NothingAtHand
        /\ op' = "from_source"
        /\ args' = [ strict |-> FALSE, form |-> form, name |-> name ]
        /\ policies' = Append(policies, from_source(form, in_form(form, name)))
        /\ ret' = Ok(Len(policies'))
        /\ UNCHANGED <<cls, req, text, origin, warned>>

\* the last call returned a policy: ret is its place among the objects
PolicyAtHand == op \in { "from_sources", "replace" } /\ IsOk(ret)

\* policy.replace(**overlay) on the policy at hand; on the result of a
\* replace the same overlay is applied again
ReplaceCall ==
    \E overlay \in OverlayNames :
        /\ PolicyAtHand
        /\ op = "replace" => (args.base = 1 /\ overlay = args.overlay)
        /\ op' = "replace"
        /\ args' = [ strict |-> FALSE, base |-> ret.val,
                     before |-> policies[ret.val], overlay |-> overlay ]
        /\ policies' = policies_after_replace(policies, ret.val, source(overlay))
        /\ ret' = Ok(Len(policies'))
        /\ UNCHANGED <<cls, req, text, origin, warned>>

\* policy.get_options(scheme, category) on the policy at hand
GetOptionsCall ==
    \E scheme \in OptionSchemes, category \in Categories :
        /\ PolicyAtHand
        /\ op' = "get_options"
        /\ args' = [ strict |-> FALSE, policy |-> ret.val,
                     scheme |-> scheme, category |-> category ]
        /\ ret' = Ok(get_options(policies[ret.val], scheme, category))
        /\ UNCHANGED <<cls, req, text, origin, policies, warned>>

\* policy.handler_is_deprecated(scheme) on the policy at hand
IsDeprecatedCall ==
    \E scheme \in OptionSchemes :
        /\ PolicyAtHand
        /\ op' = "handler_is_deprecated"
        /\ args' = [ strict |-> FALSE, policy |-> ret.val, scheme |-> scheme ]
        /\ ret' = Ok(handler_is_deprecated(policies[ret.val], scheme))
        /\ UNCHANGED <<cls, req, text, origin, policies, warned>>

\* the rounds given to the constructors of pbkdf2.py: below the minimum, the
\* minimum, one hexadecimal digit, the implicit rounds of dlitz and the next
Pbkdf2Rounds ==
    { 0, pbkdf2_min_rounds, 12, DLITZ_IMPLICIT_ROUNDS, DLITZ_IMPLICIT_ROUNDS + 1 }

\* n bytes, none of them zero
bytes_sample(n) == [ i \in 1..n |-> ((i * 37) % 255) + 1 ]

\* the salts given to a constructor: of every size class of the handler
Pbkdf2Salts(h) ==
    CASE h = "atlassian_pbkdf2_sha1" ->
            { bytes_sample(3), bytes_sample(16), bytes_sample(17) }
      [] h = "dlitz_pbkdf2_sha1" -> { << >>, << "a", "b" >>, << "a", "!" >> }
      [] OTHER -> { << >>, bytes_sample(2), bytes_sample(3), bytes_sample(4) }

\* the checksums given to a constructor: none, one of the right size, and
\* one of a wrong size where the handler declares a size
Pbkdf2Checksums(h) ==
    CASE h = "dlitz_pbkdf2_sha1" -> { None, Some(<< "X", "y" >>) }
      [] checksum_size(h).isNone -> { None, Some(bytes_sample(5)) }
      [] OTHER -> { None, Some(bytes_sample(checksum_size(h).val)),
                    Some(bytes_sample(5)) }

\* handler(rounds=rounds, salt=salt, checksum=checksum, relaxed=relaxed)
Pbkdf2InitCall ==
    \E h \in Pbkdf2Handlers, relaxed \in BOOLEAN, rounds \in Pbkdf2Rounds :
        \E salt \in Pbkdf2Salts(h), checksum \in Pbkdf2Checksums(h) :
            /\ NothingAtHand
            /\ has_rounds(h) \/ rounds = pbkdf2_min_rounds
            /\ op' = "pbkdf2_init"
            /\ args' = [ strict |-> ~relaxed, handler |-> h, rounds |-> rounds,
                         salt |-> salt, checksum |-> checksum ]
            /\ ret' = pbkdf2_init(h, rounds, salt, checksum, relaxed)
            /\ warned' = warned \o pbkdf2_warnings(h, rounds, salt, checksum, relaxed)
            /\ UNCHANGED <<cls, req, text, origin, policies>>

\* the last call returned an instance of a handler of pbkdf2.py
InstanceAtHand == op \in { "pbkdf2_init", "pbkdf2_from_string" } /\ IsOk(ret)

\* instance.to_string(withchk) on the instance at hand; atlassian_pbkdf2_sha1
\* has no withchk
Pbkdf2ToStringCall ==
    \E withchk \in BOOLEAN :
        /\ InstanceAtHand
        /\ ret.val.handler = "atlassian_pbkdf2_sha1" => withchk
        /\ op' = "pbkdf2_to_string"
        /\ args' = [ strict |-> FALSE, inst |-> ret.val, withchk |-> withchk,
                     source |-> IF op = "pbkdf2_from_string" THEN Some(args.hash)
                                ELSE None ]
        /\ ret' = Ok(pbkdf2_to_string(ret.val, withchk))
        /\ UNCHANGED <<cls, req, text, origin, policies, warned>>

\* strings of dlitz_pbkdf2_sha1 from outside: no rounds field, the implicit
\* rounds written out, other rounds with a checksum, zero-padded rounds,
\* and one field only
DlitzTexts ==
    { p5k2_ident \o << "$", "a", "b" >>,
      p5k2_ident \o FormatHex(DLITZ_IMPLICIT_ROUNDS) \o << "$", "a", "b" >>,
      p5k2_ident \o << "c", "$", "a", "b", "$", "X", "y" >>,
      p5k2_ident \o << "0", "c", "$", "a", "b" >>,
      p5k2_ident \o << "a", "b" >> }

\* handler.from_string(hash) of the string that to_string returned, by the
\* handler that rendered it, or of a string from outside
Pbkdf2FromStringCall ==
    \/ /\ op = "pbkdf2_to_string"
       /\ op' = "pbkdf2_from_string"
       /\ args' = [ strict |-> FALSE, handler |-> args.inst.handler,
                    hash |-> ret.val, outside |-> FALSE,
                    rendered |-> args.inst, withchk |-> args.withchk ]
       /\ ret' = pbkdf2_from_string(args.inst.handler, ret.val)
       /\ UNCHANGED <<cls, req, text, origin, policies, warned>>
    \/ \E hash \in DlitzTexts :
        /\ NothingAtHand
        /\ op' = "pbkdf2_from_string"
        /\ args' = [ strict |-> FALSE, handler |-> "dlitz_pbkdf2_sha1",
                     hash |-> hash, outside |-> TRUE ]
        /\ ret' = pbkdf2_from_string("dlitz_pbkdf2_sha1", hash)
        /\ UNCHANGED <<cls, req, text, origin, policies, warned>>

\* the handlers of pbkdf2.py that claim a string by its ident: the string
\* that to_string returned, or the ident of a handler followed by fields
Pbkdf2IdentifyCall ==
    \/ /\ op = "pbkdf2_to_string"
       /\ op' = "pbkdf2_identify"
       /\ args' = [ strict |-> FALSE, hash |-> ret.val ]
       /\ ret' = Ok(claimed_by(ret.val))
       /\ UNCHANGED <<cls, req, text, origin, policies, warned>>
    \/ \E h \in Pbkdf2Handlers \cup LdapWrappers :
        /\ NothingAtHand
        /\ op' = "pbkdf2_identify"
        /\ args' = [ strict |-> FALSE, hash |-> ident(h) \o << "c", "$", "a", "b" >> ]
        /\ ret' = Ok(claimed_by(ident(h) \o << "c", "$", "a", "b" >>))
        /\ UNCHANGED <<cls, req, text, origin, policies, warned>>

Next ==
    \/ NormSaltCall
    \/ NormRoundsCall
    \/ BaseInitCall
    \/ Sha512InitCall
    \/ ToStringCall
    \/ FromStringCall
    \/ GenconfigCall
    \/ GenhashCall
    \/ EncryptCall
    \/ VerifyCall
    \/ IdentifyCall
    \/ BaseIdentifyCall
    \/ CryptIdentifyCall
    \/ Encode3Call
    \/ Encode2Call
    \/ Encode1Call
    \/ ContextIdentifyCall
    \/ ContextVerifyCall
    \/ ValidateClassCall
    \/ FromSourcesCall
    \/ FromSourceCall
    \/ ReplaceCall
    \/ GetOptionsCall
    \/ IsDeprecatedCall
    \/ Pbkdf2InitCall
    \/ Pbkdf2ToStringCall
    \/ Pbkdf2FromStringCall
    \/ Pbkdf2IdentifyCall

Spec == Init /\ [][Next]_vars

-----------------------------------------------------------------------------
(* Properties of the normalizers *)

\* the call just made was norm_rounds on a rounds value below min_rounds
RoundsBelowMin ==
    op = "norm_rounds" /\ ~req.rounds.isNone /\ req.rounds.val < cls.min_rounds

\* the call just made was norm_rounds on a rounds value above max_rounds
RoundsAboveMax ==
    op = "norm_rounds" /\ ~req.rounds.isNone /\ req.rounds.val > cls.max_rounds

\* the call just made was norm_salt on a salt that was supplied
SaltSupplied == op = "norm_salt" /\ ~req.salt.isNone

\* C4: norm_rounds on a value below min_rounds returns exactly min_rounds
\* when strict is false and the class's strict_rounds_bounds is false, and
\* raises when strict or strict_rounds_bounds is true.
C4_RoundsBelowMin ==
    RoundsBelowMin =>
        ret = IF args.strict \/ cls.strict_rounds_bounds
              THEN Raise("ValueError")
              ELSE Ok(cls.min_rounds)

\* a relaxed call on a class with relaxed bounds was raised to min_rounds
C4_Witness ==
    /\ RoundsBelowMin
    /\ ~args.strict
    /\ ~cls.strict_rounds_bounds
    /\ ret = Ok(cls.min_rounds)

\* C5 as stated: norm_rounds on a value above max_rounds raises when strict
\* is true and otherwise returns exactly max_rounds, whatever the class's
\* strict_rounds_bounds.  A class with strict_rounds_bounds refutes it.
C5_AsStated ==
    RoundsAboveMax =>
        ret = IF args.strict THEN Raise("ValueError") ELSE Ok(cls.max_rounds)

\* C5, amended: norm_rounds on a value above max_rounds raises when strict
\* is true or the class's strict_rounds_bounds is true, and otherwise
\* returns exactly max_rounds.
C5_RoundsAboveMax ==
    RoundsAboveMax =>
        ret = IF args.strict \/ cls.strict_rounds_bounds
              THEN Raise("ValueError")
              ELSE Ok(cls.max_rounds)

\* a relaxed call on a class with strict_rounds_bounds raised
C5_Witness ==
    /\ RoundsAboveMax
    /\ ~args.strict
    /\ cls.strict_rounds_bounds
    /\ ret = Raise("ValueError")

\* C6: norm_salt on a supplied salt longer than max_salt_chars raises when
\* strict is true, and when strict is false returns the first max_salt_chars
\* characters of the supplied salt.
C6_SaltTooLong ==
    (SaltSupplied /\ Len(req.salt.val) > cls.max_salt_chars) =>
        ret = IF args.strict THEN Raise("ValueError")
              ELSE Ok([ i \in 1..cls.max_salt_chars |-> req.salt.val[i] ])

\* a relaxed call returned a proper, non-empty prefix of the supplied salt
C6_Witness ==
    /\ SaltSupplied
    /\ Len(req.salt.val) > cls.max_salt_chars
    /\ ~args.strict
    /\ IsOk(ret)
    /\ Len(ret.val) = cls.max_salt_chars
    /\ ret.val # req.salt.val
    /\ \A i \in 1..Len(ret.val) : ret.val[i] = req.salt.val[i]

\* C7: norm_salt on a supplied salt shorter than min_salt_chars raises in
\* strict and in relaxed mode alike.
C7_SaltTooShort ==
    (SaltSupplied /\ Len(req.salt.val) < cls.min_salt_chars) =>
        ret = Raise("ValueError")

\* a relaxed call on a non-empty salt that is too short raised
C7_Witness ==
    /\ SaltSupplied
    /\ Len(req.salt.val) > 0
    /\ Len(req.salt.val) < cls.min_salt_chars
    /\ ~args.strict
    /\ ret = Raise("ValueError")

\* C8: norm_salt with no salt supplied raises when strict is true, and when
\* strict is false returns a salt of exactly default_salt_chars characters,
\* every one of them a member of default_salt_charset.
C8_SaltGenerated ==
    (op = "norm_salt" /\ req.salt.isNone) =>
        IF args.strict THEN ret = Raise("ValueError")
        ELSE /\ IsOk(ret)
             /\ Len(ret.val) = cls.default_salt_chars
             /\ \A i \in 1..Len(ret.val) :
                    ret.val[i] \in Range(cls.default_salt_charset)

\* a relaxed call on a class whose default salt size is below its maximum
\* returned a generated salt
C8_Witness ==
    /\ op = "norm_salt"
    /\ req.salt.isNone
    /\ ~args.strict
    /\ cls.default_salt_chars < cls.max_salt_chars
    /\ IsOk(ret)
    /\ Len(ret.val) = cls.default_salt_chars

-----------------------------------------------------------------------------
(* Properties of sha512_crypt's strings *)

\* the characters of s are all of the hash64 alphabet
AllH64(s) == \A i \in 1..Len(s) : s[i] \in H64Set

\* the string at hand was rendered by to_string from the instance origin.inst
Rendered == origin.kind = "to_string"

\* "$6$" salt "$" checksum, the form without a rounds field
ShortForm(inst) ==
    << "$", "6", "$" >> \o inst.salt \o << "$" >> \o checksum_or_empty(inst)

\* "$6$rounds=" n "$" salt "$" checksum, the form with a rounds field
LongForm(inst) ==
    << "$", "6", "$", "r", "o", "u", "n", "d", "s", "=" >>
    \o FormatInt(inst.rounds) \o << "$" >> \o inst.salt \o << "$" >>
    \o checksum_or_empty(inst)

\* the salt was supplied and genconfig rendered it
GenconfigOn(rounds) ==
    /\ op = "genconfig"
    /\ IsOk(ret)
    /\ ~req.salt.isNone
    /\ AllH64(req.salt.val)
    /\ Len(req.salt.val) <= sha512_crypt.max_salt_chars
    /\ req.rounds = Some(rounds)

\* C2: to_string leaves the rounds field out exactly when rounds = 5000 and
\* the implicit_rounds flag is set, and otherwise renders
\* "$6$rounds=<n>$<salt>$<checksum>"; genconfig with rounds=5000 and
\* implicit_rounds=True renders no rounds field, and with rounds=10000 it
\* renders "rounds=10000".
C2_RoundsField ==
    /\ (op = "to_string" /\ IsOk(ret)) =>
          ret.val = IF /\ origin.inst.rounds = 5000
                       /\ origin.inst.implicit_rounds = Some(TRUE)
                    THEN ShortForm(origin.inst)
                    ELSE LongForm(origin.inst)
    /\ (GenconfigOn(5000) /\ args.implicit_rounds = Some(TRUE)) =>
          ret.val = << "$", "6", "$" >> \o req.salt.val \o << "$" >>
    /\ GenconfigOn(10000) =>
          ret.val = << "$", "6", "$", "r", "o", "u", "n", "d", "s", "=",
                       "1", "0", "0", "0", "0", "$" >>
                    \o req.salt.val \o << "$" >>

\* to_string rendered explicit rounds of 5000 with a rounds field
C2_Witness ==
    /\ op = "to_string"
    /\ IsOk(ret)
    /\ origin.inst.rounds = 5000
    /\ origin.inst.implicit_rounds = Some(FALSE)
    /\ Len(origin.inst.salt) > 0
    /\ ret.val = LongForm(origin.inst)

\* a valid settings value: a salt of 0..16 characters of the salt charset,
\* rounds within [min_rounds, max_rounds], no checksum or one of 86
\* characters
ValidSettings(inst) ==
    /\ Len(inst.salt) <= sha512_crypt.max_salt_chars
    /\ \A i \in 1..Len(inst.salt) : inst.salt[i] \in Range(sha512_crypt.salt_chars)
    /\ inst.rounds >= sha512_crypt.min_rounds
    /\ inst.rounds <= sha512_crypt.max_rounds
    /\ (inst.checksum.isNone \/ Len(inst.checksum.val) = 86)

\* C3: for every valid settings value x, from_string(to_string(x)) has the
\* same salt, rounds and checksum as x.
C3_RoundTrip ==
    (op = "from_string" /\ Rendered /\ ValidSettings(origin.inst)) =>
        /\ IsOk(ret)
        /\ ret.val.salt = origin.inst.salt
        /\ ret.val.rounds = origin.inst.rounds
        /\ ret.val.checksum = origin.inst.checksum

\* a hash with a salt, a checksum and implicit rounds was parsed back
C3_Witness ==
    /\ op = "from_string"
    /\ Rendered
    /\ ValidSettings(origin.inst)
    /\ Len(origin.inst.salt) > 0
    /\ ~origin.inst.checksum.isNone
    /\ origin.inst.rounds = 5000
    /\ IsOk(ret)
    /\ ret.val.salt = origin.inst.salt
    /\ ret.val.checksum = origin.inst.checksum

\* the string starts with a rounds field whose number starts with "0":
\* "$6$rounds=0", further digits, "$"
ZeroPaddedRounds(t) ==
    /\ ~t.isNone
    /\ Len(t.val) > 11
    /\ [ i \in 1..11 |-> t.val[i] ]
         = << "$", "6", "$", "r", "o", "u", "n", "d", "s", "=", "0" >>
    /\ \E j \in 12..Len(t.val) :
          /\ t.val[j] = "$"
          /\ \A k \in 12..(j - 1) : t.val[k] \in DigitSet

\* C10: from_string rejects with ValueError every string whose explicit
\* rounds field is zero-padded; no instance is made of it.
C10_ZeroPadded ==
    (op = "from_string" /\ ZeroPaddedRounds(text)) => ret = Raise("ValueError")

\* a string that is well-formed but for the padding of its rounds was
\* rejected: the same string without the padding parses
C10_Witness ==
    /\ op = "from_string"
    /\ ZeroPaddedRounds(text)
    /\ ret = Raise("ValueError")
    /\ IsOk(from_string(Some(<< "$", "6", "$", "r", "o", "u", "n", "d", "s", "=" >>
                             \o Drop(text.val, 11)), 0))

-----------------------------------------------------------------------------
(* Properties of encrypt and verify *)

\* the hash at hand came from encrypt and verify was just called on it
VerifiedEncrypted == op = "verify" /\ origin.kind = "encrypt"

\* the digest of the secret, under the salt and the rounds of the parsed
\* hash, is not the checksum of that hash
OtherDigest(secret, parsed) ==
    /\ IsOk(parsed)
    /\ Some(raw_sha512_crypt(secret, parsed.val.salt, parsed.val.rounds).checksum)
         # parsed.val.checksum

\* C1: for every secret and all settings encrypt accepts,
\* verify(secret, encrypt(secret, settings)) is true, and
\* verify(other, encrypt(secret, settings)) is false for every other secret
\* whose digest differs from that of secret.
C1_VerifyEncrypt ==
    VerifiedEncrypted =>
        IF args.secret = origin.secret THEN ret = Ok(TRUE)
        ELSE OtherDigest(args.secret, from_string(text, 0)) => ret = Ok(FALSE)

\* a hash made with a supplied salt was verified against another secret,
\* whose digest differs, and the verification failed
C1_Witness ==
    /\ VerifiedEncrypted
    /\ ~req.salt.isNone
    /\ Len(req.salt.val) > 0
    /\ args.secret # origin.secret
    /\ OtherDigest(args.secret, from_string(text, 0))
    /\ ret = Ok(FALSE)

\* the call just made was handed a salt with a character outside the salt
\* charset of the class
ForeignSalt ==
    /\ op \in { "norm_salt", "sha512_init", "genconfig", "encrypt" }
    /\ ~req.salt.isNone
    /\ \E i \in 1..Len(req.salt.val) : req.salt.val[i] \notin Range(cls.salt_chars)

\* C9 as stated: a supplied salt with a character outside the salt charset
\* is rejected; it is not returned by the normalizer, stored in an instance
\* or rendered into a string.  norm_salt has no such check, so TLC refutes
\* this.
C9_CharsetEnforced == ForeignSalt => ~IsOk(ret)

-----------------------------------------------------------------------------
(* Properties of sha512_crypt.from_string *)

\* the string starts with a rounds field: "$6$rounds=", one or more digits,
\* "$"
HasRoundsField(t) ==
    /\ ~t.isNone
    /\ Len(t.val) > 11
    /\ [ i \in 1..10 |-> t.val[i] ]
         = << "$", "6", "$", "r", "o", "u", "n", "d", "s", "=" >>
    /\ \E j \in 12..Len(t.val) :
          /\ t.val[j] = "$"
          /\ \A k \in 11..(j - 1) : t.val[k] \in DigitSet

\* from_string was just called on the string at hand and returned an instance
Parsed == op = "from_string" /\ IsOk(ret)

\* C11: when a sha512_crypt string has no rounds field, from_string yields
\* rounds = 5000 (not the class's default_rounds) and implicit_rounds true,
\* and to_string of the result has no rounds field again; when the field is
\* present, implicit_rounds is false.
C11_ImplicitRounds ==
    Parsed =>
        IF HasRoundsField(text)
        THEN ret.val.implicit_rounds = Some(FALSE)
        ELSE /\ ret.val.rounds = 5000
             /\ ret.val.implicit_rounds = Some(TRUE)
             /\ to_string(ret.val) = Ok(ShortForm(ret.val))

\* a hash without a rounds field was parsed
C11_Witness ==
    /\ Parsed
    /\ ~HasRoundsField(text)
    /\ ~ret.val.checksum.isNone
    /\ Len(ret.val.salt) > 0
    /\ ret.val.rounds = 5000
    /\ ret.val.rounds # sha512_crypt.default_rounds
    /\ ret.val.implicit_rounds = Some(TRUE)

\* the number of digits of the rounds field of t, 0 if it has none
RoundsDigits(t) ==
    IF HasRoundsField(t) THEN RunLen(Drop(t.val, 10), InDigits) ELSE 0

\* the rounds a string declares: the number of its rounds field, or 5000
DeclaredRounds(t) ==
    IF HasRoundsField(t)
    THEN ParseInt(SubSeq(t.val, 11, 10 + RoundsDigits(t)))
    ELSE 5000

\* what follows "$6$" and the rounds field, if any
AfterRounds(t) ==
    IF HasRoundsField(t) THEN Drop(t.val, 11 + RoundsDigits(t))
    ELSE Drop(t.val, 3)

\* rest is a salt of at most 16 characters, none of them ":", "$" or a
\* newline, followed by nothing or by one "$"
SaltThenEnd(rest, n) ==
    /\ n <= 16
    /\ \A i \in 1..n : rest[i] \notin { ":", "$", NL }
    /\ Len(rest) \in { n, n + 1 }
    /\ (Len(rest) = n + 1 => rest[n + 1] = "$")

\* a well-formed sha512_crypt string without a checksum:
\* "$6$", an optional rounds field that is not zero-padded, a salt, and
\* an optional final "$"
WellFormedConfig(t) ==
    /\ ~t.isNone
    /\ Len(t.val) >= 3
    /\ SubSeq(t.val, 1, 3) = << "$", "6", "$" >>
    /\ ~ZeroPaddedRounds(t)
    /\ \E n \in 0..16 : SaltThenEnd(AfterRounds(t), n)

\* rounds brought into [min_rounds, max_rounds] of sha512_crypt
Clamped(r) ==
    IF r < sha512_crypt.min_rounds THEN sha512_crypt.min_rounds
    ELSE IF r > sha512_crypt.max_rounds THEN sha512_crypt.max_rounds
    ELSE r

\* C12: a well-formed string without a checksum is accepted by from_string
\* and yields an instance without a checksum; the parse normalizes in
\* relaxed mode, so rounds outside the bounds are clamped, not rejected.
C12_ConfigAccepted ==
    (op = "from_string" /\ WellFormedConfig(text)) =>
        /\ IsOk(ret)
        /\ ret.val.checksum = None
        /\ ret.val.rounds = Clamped(DeclaredRounds(text))

\* a config declaring rounds below min_rounds was parsed and its rounds
\* raised to min_rounds
C12_Witness ==
    /\ op = "from_string"
    /\ WellFormedConfig(text)
    /\ DeclaredRounds(text) < sha512_crypt.min_rounds
    /\ IsOk(ret)
    /\ ret.val.checksum = None
    /\ ret.val.rounds = sha512_crypt.min_rounds

-----------------------------------------------------------------------------
(* Properties of identify *)

\* the string at hand is not empty and from_string accepts it
Parses(t) == (~t.isNone) /\ Len(t.val) > 0 /\ IsOk(from_string(t, 0))

\* the answer identify is said to give: true exactly for a string that is
\* not empty and that the parse accepts
ParseAnswer(t) == Ok(Parses(t))

\* C13 as stated: identify of every handler without context keywords
\* returns False for an empty or absent hash, False when the parse signals
\* ValueError, and True otherwise.  sha512_crypt.identify, which only looks
\* at the prefix, refutes it.
C13_AsStated ==
    (op \in { "identify", "base_identify", "crypt_identify" }) =>
        ret = ParseAnswer(text)

\* C13, amended: the default identify of BaseSRHandler and of CryptHandler
\* (for a class without context keywords) returns a boolean for every input
\* and lets no ValueError through: False for an empty or absent hash, False
\* when the parse or genhash raises ValueError, True otherwise.
\* sha512_crypt overrides it: its identify is true exactly for a non-empty
\* string that starts with "$6$", whether or not the string parses.
C13_Identify ==
    /\ (op \in { "base_identify", "crypt_identify" }) => ret = ParseAnswer(text)
    /\ (op = "identify") =>
          ret = Ok(/\ ~text.isNone
                   /\ Len(text.val) >= 3
                   /\ SubSeq(text.val, 1, 3) = << "$", "6", "$" >>)

\* the default identify answered False for a string with the "$6$" prefix
\* that does not parse
C13_Witness ==
    /\ op = "base_identify"
    /\ ~text.isNone
    /\ Len(text.val) >= 3
    /\ SubSeq(text.val, 1, 3) = << "$", "6", "$" >>
    /\ ~Parses(text)
    /\ ret = Ok(FALSE)

-----------------------------------------------------------------------------
(* Properties of the hash64 encoders *)

\* the value of a symbol: its position in the alphabet './0-9A-Za-z'
SymbolValue(ch) == IndexIn(H64_CHARS, ch)

\* the byte of the buffer at the k-th offset of the call
InputByte(k) == args.buffer[args.offsets[k] + 1]

\* the symbols are all of the 64-character alphabet
AllSymbols(out) == \A i \in 1..Len(out) : out[i] \in H64Set

\* decoding of four symbols by the documented layout:
\*   byte1 = char1 + (low 2 bits of char2) << 6
\*   byte2 = (char2 >> 2) + (low 4 bits of char3) << 4
\*   byte3 = (char3 >> 4) + char4 << 2
Decode4(out) ==
    << SymbolValue(out[1]) + (SymbolValue(out[2]) % 4) * 64,
       (SymbolValue(out[2]) \div 4) + (SymbolValue(out[3]) % 16) * 16,
       (SymbolValue(out[3]) \div 16) + SymbolValue(out[4]) * 4 >>

\* the buffer with byte b at position pos
BufferWith(pos, b) == [ args.buffer EXCEPT ![pos] = b ]

\* no other byte at any one position of the buffer gives the same output
OutputTellsBytes ==
    \A pos \in 1..3, b \in 0..255 :
        h64_encode_3_offsets(BufferWith(pos, b), 0, 1, 2)
            = h64_encode_3_offsets(args.buffer, 0, 1, 2)
        => b = args.buffer[pos]

\* C14: h64_encode_3_offsets gives 4 symbols of the alphabet, distinct
\* inputs give distinct outputs, and decoding by the documented bit layout
\* returns exactly the input bytes.
C14_Encode3Invertible ==
    (op = "h64_encode_3_offsets") =>
        /\ Len(ret.val) = 4
        /\ AllSymbols(ret.val)
        /\ Decode4(ret.val) = << InputByte(1), InputByte(2), InputByte(3) >>
        /\ OutputTellsBytes

\* three different bytes with bits on both sides of every boundary of the
\* packing were encoded, read in reverse order
C14_Witness ==
    /\ op = "h64_encode_3_offsets"
    /\ args.buffer = << 165, 192, 63 >>
    /\ args.offsets = << 2, 1, 0 >>
    /\ Len(ret.val) = 4
    /\ Decode4(ret.val) = << 63, 192, 165 >>

\* C15: h64_encode_2_offsets gives exactly 3 symbols, the last with its two
\* high bits zero (value 0..15); h64_encode_1_offset gives exactly 2
\* symbols, the last with its four high bits zero (value 0..3); in both
\* cases the bytes supplied are recovered exactly from the symbols.
C15_PartialGroups ==
    /\ (op = "h64_encode_2_offsets") =>
          /\ Len(ret.val) = 3
          /\ AllSymbols(ret.val)
          /\ SymbolValue(ret.val[3]) <= 15
          /\ SymbolValue(ret.val[1]) + (SymbolValue(ret.val[2]) % 4) * 64
               = InputByte(1)
          /\ (SymbolValue(ret.val[2]) \div 4) + SymbolValue(ret.val[3]) * 16
               = InputByte(2)
    /\ (op = "h64_encode_1_offset") =>
          /\ Len(ret.val) = 2
          /\ AllSymbols(ret.val)
          /\ SymbolValue(ret.val[2]) <= 3
          /\ SymbolValue(ret.val[1]) + SymbolValue(ret.val[2]) * 64
               = InputByte(1)

\* two bytes with all their bits set were encoded: the last symbol has the
\* value 15
C15_Witness ==
    /\ op = "h64_encode_2_offsets"
    /\ args.buffer = << 255, 255 >>
    /\ Len(ret.val) = 3
    /\ SymbolValue(ret.val[3]) = 15

-----------------------------------------------------------------------------
(* Properties of the context *)

\* the string at hand is None or empty
EmptyHash == text.isNone \/ Len(text.val) = 0

\* the string at hand starts with "$6$"
HasSha512Prefix ==
    /\ ~text.isNone
    /\ Len(text.val) >= 3
    /\ SubSeq(text.val, 1, 3) = << "$", "6", "$" >>

\* C16: Context.verify returns false whenever the hash is empty or absent,
\* for every secret and whether or not a scheme is named, without raising,
\* although the handler's own verify raises on an empty hash; and when a
\* scheme is named and the non-empty hash does not belong to it, it raises.
C16_ContextVerify ==
    /\ (op = "context_verify" /\ EmptyHash) => ret = Ok(FALSE)
    /\ (op = "verify" /\ EmptyHash) => ret = Raise("ValueError")
    /\ (/\ op = "context_verify"
        /\ ~EmptyHash
        /\ args.scheme = Some("sha512_crypt")
        /\ ~HasSha512Prefix) => ret = Raise("ValueError")

\* a context was asked to verify the absent hash under a named scheme, and
\* answered false
C16_Witness ==
    /\ op = "context_verify"
    /\ text = None
    /\ args.scheme = Some("sha512_crypt")
    /\ ret = Ok(FALSE)

\* the positions of the schemes of the call whose handler identifies the
\* string at hand
Matching ==
    { i \in 1..Len(args.schemes) : handler_identify(args.schemes[i], text) }

\* the least position of a set of positions
Least(ps) == CHOOSE i \in ps : \A j \in ps : i <= j

\* C17: Context.identify returns the first handler, in the declared scheme
\* order, whose identify is true (its name, or the handler itself when
\* resolve is set); when none matches, the hash None included, it returns
\* None if required is false and raises if required is true.
C17_ContextIdentify ==
    (op = "context_identify") =>
        IF Matching = {}
        THEN ret = IF args.required THEN Raise("ValueError") ELSE Ok(None)
        ELSE ret = Ok(Some([ scheme  |-> args.schemes[Least(Matching)],
                             handler |-> args.resolve ]))

\* a hash of sha512_crypt was identified as plaintext by a context that
\* declares plaintext first
C17_Witness ==
    /\ op = "context_identify"
    /\ origin.kind = "encrypt"
    /\ args.schemes = << "plaintext", "sha512_crypt" >>
    /\ Matching = { 1, 2 }
    /\ ret = Ok(Some([ scheme |-> "plaintext", handler |-> args.resolve ]))

-----------------------------------------------------------------------------
(* Properties of the policy *)

\* the option names a policy recognizes
OptionNames ==
    { "salt_size", "min_rounds", "max_rounds", "default_rounds", "vary_rounds" }

\* opts gives the option o the value the mapping d holds under the key k
Gives(opts, o, d, k) == o \in DOMAIN opts /\ opts[o] = d[k]

\* the mapping d defines the option o for the category of the call
CategoryDefines(d, o) ==
    ~args.category.isNone /\ << args.category.val, o >> \in DOMAIN d

\* C18: get_options(scheme, category) resolves every option with the
\* precedence scheme over category over "all"; an option no scope defines is
\* absent from the result; an option only "all" defines (vary_rounds) is
\* inherited by every scheme.
C18_GetOptions ==
    (op = "get_options") =>
        /\ DOMAIN ret.val \subseteq OptionNames
        /\ \A o \in OptionNames :
            IF << args.scheme, o >> \in DOMAIN to_dict(policies[args.policy])
            THEN Gives(ret.val, o, to_dict(policies[args.policy]),
                       << args.scheme, o >>)
            ELSE IF CategoryDefines(to_dict(policies[args.policy]), o)
            THEN Gives(ret.val, o, to_dict(policies[args.policy]),
                       << args.category.val, o >>)
            ELSE IF << "all", o >> \in DOMAIN to_dict(policies[args.policy])
            THEN Gives(ret.val, o, to_dict(policies[args.policy]),
                       << "all", o >>)
            ELSE o \notin DOMAIN ret.val

\* the options of bsdi_crypt were asked for the category admin of a policy
\* in which "all", admin and bsdi_crypt each define max_rounds: the scheme's
\* value was returned, and vary_rounds came from the category
C18_Witness ==
    /\ op = "get_options"
    /\ args.scheme = "bsdi_crypt"
    /\ args.category = Some("admin")
    /\ { << "all", "max_rounds" >>, << "admin", "max_rounds" >>,
         << "bsdi_crypt", "max_rounds" >>, << "all", "vary_rounds" >> }
           \subseteq DOMAIN to_dict(policies[args.policy])
    /\ ret.val["max_rounds"] = 30000
    /\ ret.val["vary_rounds"] = "5%"
    /\ "min_rounds" \notin DOMAIN ret.val

\* every scheme is deprecated in both policies or in neither
SameDeprecated(p, q) ==
    \A scheme \in OptionSchemes :
        handler_is_deprecated(p, scheme) = handler_is_deprecated(q, scheme)

\* C19: replace returns a new policy in which every key of the overlay has
\* the overlay's value and every other key of the base is kept; the base is
\* not changed (its to_dict and its handler_is_deprecated answers are what
\* they were before the call); applying the same overlay again changes
\* nothing.
C19_Replace ==
    (op = "replace") =>
        /\ ret.val # args.base
        /\ DOMAIN to_dict(policies[ret.val])
             = DOMAIN to_dict(args.before) \cup DOMAIN source(args.overlay)
        /\ \A k \in DOMAIN source(args.overlay) :
             to_dict(policies[ret.val])[k] = source(args.overlay)[k]
        /\ \A k \in DOMAIN to_dict(args.before) \ DOMAIN source(args.overlay) :
             to_dict(policies[ret.val])[k] = to_dict(args.before)[k]
        /\ to_dict(policies[args.base]) = to_dict(args.before)
        /\ SameDeprecated(policies[args.base], args.before)
        /\ to_dict(replace(policies[ret.val], source(args.overlay)))
             = to_dict(policies[ret.val])
        /\ (args.base > 1) =>
             to_dict(policies[ret.val]) = to_dict(policies[args.base])

\* a policy with schemes was overlaid with the deprecated schemes: the new
\* policy deprecates des_crypt and bsdi_crypt and not sha512_crypt, the base
\* deprecates none
C19_Witness ==
    /\ op = "replace"
    /\ args.overlay = "deprecated_overlay"
    /\ args.base = 1
    /\ << "schemes" >> \in DOMAIN to_dict(policies[1])
    /\ handler_is_deprecated(policies[2], "des_crypt")
    /\ handler_is_deprecated(policies[2], "bsdi_crypt")
    /\ ~handler_is_deprecated(policies[2], "sha512_crypt")
    /\ \A scheme \in OptionSchemes : ~handler_is_deprecated(policies[1], scheme)

\* the policy overlaid in turn with each of the sources from i on
RECURSIVE replaced_by_each(_, _, _)
replaced_by_each(policy, sources, i) ==
    IF i > Len(sources) THEN policy
    ELSE replaced_by_each(replace(policy, source(sources[i])), sources, i + 1)

\* C20: from_sources folds its sources from left to right: the to_dict of
\* from_sources([A, B, C]) is that of A.replace(**B).replace(**C); an empty
\* list of sources is an error.
C20_FromSources ==
    (op = "from_sources") =>
        IF Len(args.sources) = 0 THEN ret = Raise("ValueError")
        ELSE /\ IsOk(ret)
             /\ to_dict(policies[ret.val])
                  = to_dict(replaced_by_each(
                        policy_from_dict(source(args.sources[1])),
                        args.sources, 2))

\* three sources that define the same keys were folded: the last value of
\* each key is the policy's
C20_Witness ==
    /\ op = "from_sources"
    /\ args.sources
         = << "sample_config_1pd", "sample_config_2pd", "sample_config_3pd" >>
    /\ IsOk(ret)
    /\ to_dict(policies[ret.val])[<< "default" >>] = "sha512_crypt"
    /\ to_dict(policies[ret.val])[<< "bsdi_crypt", "max_rounds" >>] = 35000
    /\ to_dict(policies[ret.val])[<< "sha512_crypt", "max_rounds" >>] = 50000
    /\ to_dict(policies[ret.val])[<< "sha512_crypt", "min_rounds" >>] = 45000

\* C21: to_dict is a faithful inverse of construction: a policy made from a
\* mapping, from the text that says the same or from the file that holds
\* that text serializes to the mapping; and every policy made serializes to
\* a mapping, and to a text, from which an equal policy is made.
C21_ToDictInverse ==
    /\ (op = "from_source") => to_dict(policies[ret.val]) = source(args.name)
    /\ \A i \in 1..Len(policies) :
        /\ to_dict(policy_from_dict(to_dict(policies[i]))) = to_dict(policies[i])
        /\ to_dict(policy_from_string(policy_to_string(policies[i])))
             = to_dict(policies[i])

\* the first sample configuration was read from its file and serialized to
\* the mapping of the sample, numbers and the list of schemes included
C21_Witness ==
    /\ op = "from_source"
    /\ args.form = "path"
    /\ args.name = "sample_config_1pd"
    /\ to_dict(policies[ret.val]) = sample_config_1pd
    /\ to_dict(policies[ret.val])[<< "bsdi_crypt", "max_rounds" >>] = 30000
    /\ Len(to_dict(policies[ret.val])[<< "schemes" >>]) = 4

-----------------------------------------------------------------------------
(* Properties of validate_class *)

\* the conditions on a class: a name, both setting keywords, ordered rounds
\* and salt bounds, a known cost function, and a default salt charset within
\* the salt charset (salt_chars, where the class has no salt_charset)
WellConfigured(d, c) ==
    /\ ~d.name.isNone /\ d.name.val # ""
    /\ { "salt", "rounds" } \subseteq d.setting_kwds
    /\ ~d.max_rounds.isNone /\ ~d.default_rounds.isNone
    /\ d.min_rounds <= d.default_rounds.val
    /\ d.default_rounds.val <= d.max_rounds.val
    /\ d.min_salt_chars <= d.default_salt_chars
    /\ d.default_salt_chars <= d.max_salt_chars
    /\ d.rounds_cost \in { "linear", "log2" }
    /\ Range(d.default_salt_charset)
         \subseteq Range(IF d.salt_charset.isNone THEN c.salt_chars
                         ELSE d.salt_charset.val)

\* C22: validate_class returns normally for every class that meets the
\* conditions and raises ValueError whenever one of them is violated.
C22_ValidateClass ==
    (op = "validate_class") =>
        ret = IF WellConfigured(variant(cls, args.variant), cls) THEN Ok(None)
              ELSE Raise("ValueError")

-----------------------------------------------------------------------------
(* Properties of the diagnostics *)

\* the call just made was a relaxed norm_rounds that returned a value other
\* than the one supplied
RoundsCorrected ==
    /\ op = "norm_rounds" /\ ~args.strict /\ ~req.rounds.isNone
    /\ IsOk(ret) /\ ret.val # req.rounds.val

\* the call just made was a relaxed norm_salt that returned a salt other
\* than the one supplied
SaltCorrected ==
    /\ op = "norm_salt" /\ ~args.strict /\ ~req.salt.isNone
    /\ IsOk(ret) /\ ret.val # req.salt.val

\* C24: in relaxed mode every correction the normalizer makes (rounds
\* clamped to min or max, salt truncated to the maximum) is surfaced as a
\* diagnostic, and the call completes with the corrected value; none is
\* silent.
C24_CorrectionSurfaced ==
    (RoundsCorrected \/ SaltCorrected) => Len(warned) > 0

-----------------------------------------------------------------------------
(* Properties of encrypt as a composition *)

\* the call just made was encrypt with a salt of at least one character and
\* no other keyword than salt and rounds
EncryptWithSettings ==
    /\ op = "encrypt" /\ cls = sha512_crypt
    /\ ~args.strict /\ args.implicit_rounds = None
    /\ ~req.salt.isNone /\ Len(req.salt.val) > 0

\* C25: for sha512_crypt, encrypt(secret, salt=s, rounds=r) returns the
\* string genhash(secret, genconfig(salt=s, rounds=r)) returns, for every
\* secret, salt and rounds, rounds = 5000 included.
C25_EncryptComposes ==
    EncryptWithSettings =>
        \A d1 \in Draws, d2 \in Draws :
            ret = genhash_of(args.secret,
                             genconfig(req.salt, req.rounds, Some(TRUE), d1), d2)

-----------------------------------------------------------------------------
(* Properties of parsing as a function *)

\* C26: from_string never draws from the random source: parsing the same
\* accepted string again yields equal salt, rounds and checksum whatever the
\* random source holds, and a string whose salt token is empty yields the
\* empty salt, so genhash is a function of the secret and the config alone.
C26_ParseDeterministic ==
    /\ (op = "from_string" /\ IsOk(ret)) =>
           \A draw \in Draws : from_string(text, draw) = ret
    /\ (/\ op = "from_string" /\ IsOk(ret)
        /\ text.val \in { << "$", "6", "$" >>,
                          RoundsPrefix \o FormatNat(ImplicitRounds)
                              \o << "$" >> })
           => ret.val.salt = << >>
    /\ (op = "genhash" /\ IsOk(ret)) =>
           \A draw \in Draws :
               genhash(args.secret, args.config, draw) = ret

-----------------------------------------------------------------------------
(* Properties of the assertion in to_string *)

\* the calls that render an instance of sha512_crypt
Rendering == { "to_string", "genconfig", "genhash", "encrypt", "verify" }

\* C27: the assertion of sha512_crypt.to_string that the salt holds no "$"
\* never fails: whatever salt is passed to genconfig or encrypt and whatever
\* string to genhash or from_string, either ValueError is raised before the
\* assertion is reached or the salt rendered is free of "$".
C27_AssertionHolds ==
    (cls = sha512_crypt /\ op \in Rendering) =>
        (IsOk(ret) \/ ret = Raise("ValueError"))

-----------------------------------------------------------------------------
(* Properties of the instances *)

\* the call just made returned an instance
Constructed == op \in { "base_init", "sha512_init", "from_string" } /\ IsOk(ret)

\* the class keeps min <= default <= max for the rounds and for the salt
ClassOrdered(c) ==
    /\ c.min_rounds <= c.default_rounds /\ c.default_rounds <= c.max_rounds
    /\ c.min_salt_chars <= c.default_salt_chars
    /\ c.default_salt_chars <= c.max_salt_chars

\* C28: every instance whose construction returns normally, strict or
\* relaxed, with salt and rounds supplied or unset, has its rounds within
\* min_rounds..max_rounds and its salt length within
\* min_salt_chars..max_salt_chars, provided the class orders its bounds.
C28_InstanceInBounds ==
    (Constructed /\ ClassOrdered(cls)) =>
        /\ cls.min_rounds <= ret.val.rounds
        /\ ret.val.rounds <= cls.max_rounds
        /\ cls.min_salt_chars <= Len(ret.val.salt)
        /\ Len(ret.val.salt) <= cls.max_salt_chars

\* a relaxed construction was asked for rounds below the minimum and a salt
\* longer than the maximum, and returned an instance with the minimum
\* rounds and a salt of the maximum length
C28_Witness ==
    /\ op = "base_init" /\ ~args.strict /\ IsOk(ret)
    /\ ~req.rounds.isNone /\ req.rounds.val < cls.min_rounds
    /\ ~req.salt.isNone /\ Len(req.salt.val) > cls.max_salt_chars
    /\ ret.val.rounds = cls.min_rounds
    /\ Len(ret.val.salt) = cls.max_salt_chars

-----------------------------------------------------------------------------
(* Properties of the pbkdf2 handlers *)

\* the rounds field of a string of dlitz_pbkdf2_sha1
dlitz_rounds_field(hash) == split(Drop(hash, Len(p5k2_ident)), "$")[1]

\* to_string of dlitz_pbkdf2_sha1 returned
DlitzRendered == op = "pbkdf2_to_string" /\ args.inst.handler = "dlitz_pbkdf2_sha1"

\* from_string of dlitz_pbkdf2_sha1 returned from a string with the ident
DlitzParsed ==
    /\ op = "pbkdf2_from_string"
    /\ args.handler = "dlitz_pbkdf2_sha1"
    /\ IsPrefixOf(p5k2_ident, args.hash)

\* C23: to_string of dlitz_pbkdf2_sha1 leaves the rounds field empty exactly
\* when the rounds are 400, whether the instance was constructed or parsed
\* from a string that spelled the rounds out, and writes every other rounds
\* value in hexadecimal without padding; from_string of a string whose
\* rounds field is empty yields rounds = 400.
C23_DlitzRounds ==
    /\ DlitzRendered =>
        /\ (dlitz_rounds_field(ret.val) = << >>) <=> (args.inst.rounds = 400)
        /\ args.inst.rounds # 400 =>
            /\ Range(dlitz_rounds_field(ret.val)) \subseteq Range(HexLower)
            /\ dlitz_rounds_field(ret.val)[1] # "0"
            /\ ParseHex(dlitz_rounds_field(ret.val)) = args.inst.rounds
    /\ (DlitzParsed /\ dlitz_rounds_field(args.hash) = << >>) =>
        (IsOk(ret) /\ ret.val.rounds = 400)

\* a string that spells out rounds 190 (hexadecimal) was parsed, and to_string
\* of the result left the rounds field empty
C23_Witness ==
    /\ DlitzRendered
    /\ ~args.source.isNone
    /\ dlitz_rounds_field(args.source.val) = << "1", "9", "0" >>
    /\ ret = Ok(p5k2_ident \o << "$", "a", "b" >>)

\* from_string returned from the string that to_string made of an instance
\* without a checksum
ConfigParsed ==
    /\ op = "pbkdf2_from_string"
    /\ ~args.outside
    /\ args.rendered.checksum.isNone

\* C29: for every handler of pbkdf2.py, the string rendered from settings
\* without a checksum parses back to settings without a checksum.
C29_ConfigStaysConfig ==
    ConfigParsed => (IsOk(ret) /\ ret.val.checksum.isNone)

\* the same for every handler but atlassian_pbkdf2_sha1
ConfigStaysConfigElsewhere ==
    (ConfigParsed /\ args.handler # "atlassian_pbkdf2_sha1") =>
        (IsOk(ret) /\ ret.val.checksum.isNone /\ ret.val = args.rendered)

\* atlassian_pbkdf2_sha1 parses its own config as a hash with the stub
\* checksum
AtlassianStubParsed ==
    (ConfigParsed /\ args.handler = "atlassian_pbkdf2_sha1") =>
        ret = Ok([ args.rendered EXCEPT !.checksum = Some(stub_checksum) ])


\* the handlers of pbkdf2.py, wrappers included
Identified == Pbkdf2Handlers \cup LdapWrappers

\* the two handlers that have the ident "$p5k2$"
P5k2Handlers == { "cta_pbkdf2_sha1", "dlitz_pbkdf2_sha1" }

\* the ident of one handler starts the ident of the other
IdentsOverlap(h1, h2) ==
    IsPrefixOf(ident(h1), ident(h2)) \/ IsPrefixOf(ident(h2), ident(h1))

\* when a string is identified: the idents are pairwise distinct and
\* prefix-free, and the string is claimed by at most one handler
C30_AsStated ==
    (op = "pbkdf2_identify") =>
        /\ \A h1 \in Identified, h2 \in Identified :
            h1 # h2 => ~IdentsOverlap(h1, h2)
        /\ Cardinality(ret.val) <= 1

\* C30: when a string is identified by its ident, the idents of the handlers
\* of pbkdf2.py (the ldap wrappers included) are pairwise distinct and
\* prefix-free except that cta_pbkdf2_sha1 and dlitz_pbkdf2_sha1 have the
\* same ident "$p5k2$": a string is claimed by at most one handler or by
\* exactly these two, and every string with the ident of one of the two is
\* claimed by both.
C30_IdentsDistinctButP5k2 ==
    (op = "pbkdf2_identify") =>
        /\ \A h1 \in Identified, h2 \in Identified :
            (h1 # h2 /\ IdentsOverlap(h1, h2)) => { h1, h2 } = P5k2Handlers
        /\ ident("cta_pbkdf2_sha1") = ident("dlitz_pbkdf2_sha1")
        /\ Cardinality(ret.val) <= 1 \/ ret.val = P5k2Handlers
        /\ (ret.val \cap P5k2Handlers # {}) => ret.val = P5k2Handlers

\* a string rendered by dlitz_pbkdf2_sha1 is claimed by both handlers
C30_Witness ==
    /\ op = "pbkdf2_identify"
    /\ IsPrefixOf(p5k2_ident, args.hash)
    /\ ret = Ok(P5k2Handlers)

\* a string with the ident of pbkdf2_sha256 is claimed by it alone
OneClaimReached ==
    /\ op = "pbkdf2_identify"
    /\ ret = Ok({ "pbkdf2_sha256" })


=========================================================================
